---- MODULE Spec2Model ----
(***************************************************************************)
(* fetch-client: the request execution engine.                             *)
(*                                                                         *)
(* One logical call is followed from its entry point (ApiRequest.send(),   *)
(* Client.request() or a Client verb such as get()) through the request    *)
(* interceptor chain, the retry/backoff/timeout loop of send(), the        *)
(* response interceptor chain and the body decoding, until the promise the *)
(* caller holds settles.  The transport (fetch), the interceptor handlers  *)
(* and a function-form retry predicate are the environment: what they      *)
(* return or throw is chosen nondeterministically.  Time is counted in     *)
(* milliseconds and passes only through the Advance action.                *)
(*                                                                         *)
(* Spec, FairSpec   one call, with timers, interceptor chains and decoding *)
(* InterceptorSpec  one Interceptor: use, reject, clear, two execute()     *)
(* FlightsSpec      two calls in flight on one Client                      *)
(* PayloadSpec      one ApiRequest: what each attempt hands to fetch       *)
(* ConfigSpec       one Client: construction, default headers, mergeConfig *)
(* DecodeSpec       one ApiResponse: getData, json, text, blob, arrayBuffer*)
(***************************************************************************)
EXTENDS Integers, Sequences, FiniteSets, TLC

\* ------------------------------------------------------------------ bounds
\* Calls of use() on one Interceptor.
MaxHandles == 2
\* Largest maxRetries a configured policy asks for.
MaxRetriesBound == 2
\* Largest number of handlers registered on the response chain.
MaxHandlers == 1
\* Largest number of handlers registered on the request chain: one more, so
\* that a handler can have one after it.
MaxRequestHandlers == MaxHandlers + 1
\* Decode operations called on one ApiResponse.
MaxDecodes == 2

\* ------------------------------------------------------- program constants
RETRY_DEFAULTS_MAX_RETRIES == 3
RETRY_DEFAULTS_DELAY == 1000
RETRY_DEFAULTS_MAX_DELAY == 30000
\* JITTER_FACTOR is 0.1: the jitter is at most one part in JitterDivisor.
JitterDivisor == 10
HTTP_STATUS_REQUEST_TIMEOUT == 408
DEFAULT_RETRY_STATUSES == {408, 429, 500, 502, 503, 504}
READ_ONLY_METHODS == {"GET", "HEAD"}
JSON_CONTENT_TYPE == "application/json"
DEFAULT_RESPONSE_TYPE == "auto"
HTTP_STATUS_NO_CONTENT == 204
HTTP_STATUS_NOT_MODIFIED == 304
\* CONTENT_TYPES.JSON and CONTENT_TYPES.TEXT
CONTENT_TYPES_JSON == "json"
CONTENT_TYPES_TEXT == {"text/", "xml"}

\* --------------------------------------------------------- the input space
\* An optional value: <<>> is undefined, <<v>> is v.
None == <<>>
Some(v) == <<v>>

\* Statuses the transport answers with.
Statuses == {200, 404, 500}
\* Configured timeouts in ms; 0 stands for "no timeout configured".
Timeouts == {0, 2}
\* Configured base delays of a structured policy.
Delays == {None, Some(100)}
\* Math.random() as k / RandomSteps, k in RandomSamples.
RandomSteps == 2
RandomSamples == 0 .. (RandomSteps - 1)

ArrayPredicate(S) == [form |-> "array", statuses |-> S]
FunctionPredicate == [form |-> "function", statuses |-> {}]
Predicates == {ArrayPredicate({500}), FunctionPredicate}

\* config.retry: a bare number, a RetryConfig object, or absent.
RetryPolicies ==
  [kind : {"number"}, maxRetries : 0 .. MaxRetriesBound, delay : {None}, shouldRetry : {None}]
  \cup [kind : {"object"}, maxRetries : 0 .. MaxRetriesBound, delay : Delays,
        shouldRetry : {None} \cup {Some(p) : p \in Predicates}]
  \cup [kind : {"absent"}, maxRetries : {0}, delay : {None}, shouldRetry : {None}]

\* What a function-form predicate does when called.
Answers == {"true", "false", "throw"}
\* What an interceptor handler does when called.
HandlerBehaviours == {"pass", "throwError", "throwApiError"}
\* What is thrown: an Error that is not an abort (a network failure), an
\* Error named AbortError, or a value that is not an Error.
ExceptionKinds == {"Error", "AbortError", "nonError"}
ResponseTypes == {"json", "text"}

\* The functions handed to Interceptor.use(), and a value that is none.
Handlers == {"A", "B"}
NotAFunction == "notAFunction"
\* The handles use() issues and reject() is called with.
Handles == 0 .. (MaxHandles - 1)
\* The items handed to Interceptor.execute().
Items == {"x", "y"}
\* The two execute() calls.
Executions == {"first", "second"}
\* config.method
HttpMethods == {"GET", "HEAD", "POST", "DELETE"}
\* config.data: absent, null, a string, another native body (Blob, FormData,
\* ...), or a plain object.
DataKinds == {"undefined", "null", "string", "native", "object"}
\* The Content-Type of config.headers.
ContentTypes == {"absent", "text/plain"}
\* The two calls in flight on one Client.
Calls == {"p", "q"}
\* What fetch does in one of their attempts: a response, or a network failure.
TransportOutcomes ==
  [kind : {"response"}, status : Statuses] \cup [kind : {"Error"}, status : {0}]
\* The policies of the ApiRequest followed by itself: a bare number, or an
\* object whose predicate is a status list (the empty one included) or a
\* function, and whose base delay is 100 ms or 20000 ms (which passes
\* RETRY_DEFAULTS.MAX_DELAY at the first doubling).
PayloadPolicies ==
  [kind : {"number"}, maxRetries : 0 .. MaxRetriesBound, delay : {None}, shouldRetry : {None}]
  \cup [kind : {"object"}, maxRetries : 0 .. MaxRetriesBound, delay : {Some(100), Some(20000)},
        shouldRetry : {Some(ArrayPredicate({})), Some(FunctionPredicate)}]
\* What fetch does in one of its attempts: also an abort.
PayloadOutcomes == TransportOutcomes \cup [kind : {"AbortError"}, status : {0}]
\* Header names as the caller writes them (one name in two casings), and
\* the value default headers are set to (per-call headers carry "2").
HeaderNames == {"X-A", "x-a"}
HeaderValues == {"1"}
\* The ClientConfig the constructor is given: timeout, baseURL, headers and
\* responseType, each of them optional.  A URL is written as its parts.
\* There is a timeout or a baseURL of any kind alone, or a good one of each.
ClientConfigs ==
  {cfg \in [timeout : {None, Some(0), Some(-1), Some(5)},
            baseURL : {None, Some(<<>>), Some(<<"https", "://", "api.test">>),
                       Some(<<"ftp", "://", "api.test">>), Some(<<"api.test">>)},
            headers : {None, Some(<<>>), Some(<< <<"X-A", "1">> >>), Some(<< <<"x-a", "1">> >>)},
            responseType : {None, Some("text")}] :
     \/ cfg.timeout = None
     \/ cfg.baseURL = None
     \/ cfg.timeout = Some(5) /\ cfg.baseURL = Some(<<"https", "://", "api.test">>)}
\* The per-call configuration handed to Client.request().
RequestConfigs ==
  [timeout : {None, Some(7)}, responseType : {None, Some("json")},
   headers : {None, Some(<< <<"X-A", "2">> >>), Some(<< <<"x-a", "2">> >>)}]
\* The body of the transport response as the decoder finds it.
BodyKinds == {"json", "empty", "malformed", "unreadable"}
\* The same for the ApiResponse followed by itself: also a body of white
\* space only.
DecodeBodies == BodyKinds \cup {"blank"}
\* The statuses of that response.
DecodeStatuses == {200, 404, HTTP_STATUS_NO_CONTENT, HTTP_STATUS_NOT_MODIFIED}
\* Its Content-Type header, written as the parts of the string; <<>> is no
\* header.
MediaTypes ==
  { <<>>,
    <<"application/", "json">>,
    <<"text/", "html">>,
    <<"text/", "x-", "json">>,
    <<"application/", "xml">>,
    <<"image/", "png">>,
    <<"image/", "svg+", "xml">>,
    <<"application/", "octet-stream">>,
    <<"application/", "pdf">>,
    <<"multipart/", "related; type=", "text/", "html">> }
\* config.responseType of the request it answers.
AllResponseTypes == {"json", "text", "blob", "arrayBuffer", "auto"}

VARIABLES
  entry,            \* "send" | "request" | "verb": the operation the caller invoked
  retry,            \* config.retry
  timeout,          \* config.timeout (0: none)
  responseType,     \* config.responseType
  transportHangs,   \* the transport never settles on its own
  nReqHandlers,     \* handlers registered on interceptors.request
  nRespHandlers,    \* handlers registered on interceptors.response
  pc,               \* where the call is
  hIdx,             \* next handler of the chain being executed
  attempt,          \* send(): the loop variable
  lastError,        \* send(): lastError is set
  waitLeft,         \* ms left of the backoff wait
  nControllers,     \* AbortControllers created so far
  abortedSignals,   \* controllers whose signal is aborted
  timer,            \* the timeout timer of send()
  calls,            \* transport invocations made so far
  outcomes,         \* how each settled transport invocation settled
  sendOutcome,      \* how send() settled
  outcome,          \* how the promise the caller holds settled
  events            \* what Client.request() and Client.execute() did so far

config == <<entry, retry, timeout, responseType, transportHangs, nReqHandlers, nRespHandlers>>
sendVars == <<attempt, lastError, waitLeft, nControllers, abortedSignals, timer, calls, outcomes, sendOutcome>>
callVars == <<config, pc, hIdx, sendVars, outcome, events>>

\* One Interceptor<T> taken by itself, with two execute() calls on it.
VARIABLES
  handlers,         \* Interceptor.handlers: handle -> handler, in insertion order
  nextId,           \* Interceptor.nextId
  iter,             \* per execute() call: the handle its Map iterator yielded last
  exec,             \* per execute() call: where it is and its local `result`
  issued,           \* the handles use() returned so far, in order
  lastOp            \* the operation called last and how it ended

interceptorVars == <<handlers, nextId, iter, exec, issued, lastOp>>

\* Two calls in flight on one Client, each with its own ApiRequest.
VARIABLES
  flight,           \* per call: where it is, its retry policy, how its transport calls settled
  attempts,         \* per call: the loop variable `attempt` of its send()
  wire              \* the calls that invoked the transport, in the order they did

flightVars == <<flight, attempts, wire>>

\* One ApiRequest and what its send() hands to fetch.
VARIABLES
  req,              \* the ApiRequest: method, data, headers, retry, and where its send() is
  sent              \* per transport invocation: the method, body and Content-Type fetch was given

payloadVars == <<req, sent>>

\* One Client, its configuration and the objects it shares with its caller.
VARIABLES
  client,           \* the Client: this.config, with headers as a reference into heap
  heap,             \* the header objects: reference -> plain object
  returned,         \* the object getConfig() returned last, as the caller holds it
  merged,           \* the last mergeConfig(): its argument, its result, the Headers built from it
  clientOp          \* the operation performed last

clientVars == <<client, heap, returned, merged, clientOp>>

\* One ApiResponse and the transport response it wraps.
VARIABLES
  resp,             \* status, Content-Type, body, and whether the body was read
  decoded           \* the decode operations called so far and how each settled

responseVars == <<resp, decoded>>

\* The parts of the state the call followed above does not touch.
elsewhere == <<interceptorVars, flightVars, payloadVars, clientVars, responseVars>>
exceptInterceptor == <<callVars, flightVars, payloadVars, clientVars, responseVars>>
exceptFlights == <<callVars, interceptorVars, payloadVars, clientVars, responseVars>>
exceptPayload == <<callVars, interceptorVars, flightVars, clientVars, responseVars>>
exceptClient == <<callVars, interceptorVars, flightVars, payloadVars, responseVars>>
exceptResponse == <<callVars, interceptorVars, flightVars, payloadVars, clientVars>>
vars == <<callVars, interceptorVars, flightVars, payloadVars, clientVars, responseVars>>

\* ------------------------------------------------------------- ErrorModel
NoError == [cls |-> "none", code |-> "-", status |-> 0]
\* A raw Error (not an ApiError), and a thrown value that is not an Error.
RawError == [cls |-> "Error", code |-> "-", status |-> 0]
NonError == [cls |-> "Other", code |-> "-", status |-> 0]
ApiError(code, status) == [cls |-> "ApiError", code |-> code, status |-> status]

fromResponse(status) == ApiError("HTTP_ERROR", status)
\* An abort classified with the code of ApiError.fromAbort.
fromTimeoutAsAbort == ApiError("ABORTED", 0)
\* ApiError.fromTimeout
fromTimeout == ApiError("TIMEOUT", HTTP_STATUS_REQUEST_TIMEOUT)
fromNetworkError == ApiError("NETWORK_ERROR", 0)
fromAbort == ApiError("ABORTED", 0)

ParseErrorCode(dataType) ==
  CASE dataType = "json" -> "JSON_PARSE_ERROR"
    [] dataType = "text" -> "TEXT_PARSE_ERROR"
    [] dataType = "blob" -> "BLOB_PARSE_ERROR"
    [] dataType = "arrayBuffer" -> "ARRAYBUFFER_PARSE_ERROR"
fromParseError(dataType, status) == ApiError(ParseErrorCode(dataType), status)

\* Every caught value that is not an ApiError is taken for a network failure.
normalizeErrorAllNetwork(error) ==
  IF error.cls = "ApiError" THEN error ELSE ApiError("NETWORK_ERROR", 0)

\* Client.normalizeError
normalizeError(error) ==
  CASE error.cls = "ApiError" -> error
    [] error.cls = "Error" -> fromNetworkError
    [] OTHER -> ApiError("UNKNOWN_ERROR", 0)

\* --------------------------------------------------- ApiRequest: retry policy
\* getRetrySettings that takes a bare 0 for no policy.
getRetrySettingsZeroIsAbsent(r) ==
  CASE r.kind = "number" /\ r.maxRetries # 0 ->
         [maxRetries |-> r.maxRetries, delay |-> RETRY_DEFAULTS_DELAY,
          shouldRetry |-> ArrayPredicate(DEFAULT_RETRY_STATUSES)]
    [] r.kind = "object" ->
         [maxRetries |-> r.maxRetries,
          delay |-> IF r.delay = None THEN RETRY_DEFAULTS_DELAY ELSE r.delay[1],
          shouldRetry |-> IF r.shouldRetry = None
                          THEN ArrayPredicate(DEFAULT_RETRY_STATUSES)
                          ELSE r.shouldRetry[1]]
    [] OTHER ->
         [maxRetries |-> RETRY_DEFAULTS_MAX_RETRIES, delay |-> RETRY_DEFAULTS_DELAY,
          shouldRetry |-> ArrayPredicate(DEFAULT_RETRY_STATUSES)]
\* getRetrySettings()
getRetrySettings(r) ==
  CASE r.kind = "number" ->
         [maxRetries |-> r.maxRetries, delay |-> RETRY_DEFAULTS_DELAY,
          shouldRetry |-> ArrayPredicate(DEFAULT_RETRY_STATUSES)]
    [] r.kind = "object" ->
         [maxRetries |-> r.maxRetries,
          delay |-> IF r.delay = None THEN RETRY_DEFAULTS_DELAY ELSE r.delay[1],
          shouldRetry |-> IF r.shouldRetry = None
                          THEN ArrayPredicate(DEFAULT_RETRY_STATUSES)
                          ELSE r.shouldRetry[1]]
    [] OTHER ->
         [maxRetries |-> RETRY_DEFAULTS_MAX_RETRIES, delay |-> RETRY_DEFAULTS_DELAY,
          shouldRetry |-> ArrayPredicate(DEFAULT_RETRY_STATUSES)]

\* response.ok
Ok(status) == status \in 200 .. 299

\* shouldRetryResponse that never finds the status in the list.
shouldRetryResponseNever(status, rs, answer) ==
  IF rs.shouldRetry.form = "array" THEN "false" ELSE answer

\* The answer of shouldRetryResponse: "true", "false", or "throw" when the
\* function-form predicate throws; answer is what that predicate does.
shouldRetryResponse(status, rs, answer) ==
  IF rs.shouldRetry.form = "array"
  THEN IF status \in rs.shouldRetry.statuses THEN "true" ELSE "false"
  ELSE answer

\* send() does not recognise an abort.
IsAbortErrorNever(exc) == FALSE
\* error.name === "AbortError"
IsAbortError(exc) == exc = "AbortError"

\* shouldRetryError that looks the error up in the status list.
shouldRetryErrorListed(exc, rs, answer) ==
  IF rs.shouldRetry.form = "array"
  THEN IF exc # "AbortError" /\ 0 \in rs.shouldRetry.statuses THEN "true" ELSE "false"
  ELSE answer
\* shouldRetryError(error, config)
shouldRetryError(exc, rs, answer) ==
  IF rs.shouldRetry.form = "array"
  THEN IF exc # "AbortError" THEN "true" ELSE "false"
  ELSE answer

\* The loop of send() stops one attempt early.
LoopGuardStrict(a, maxRetries) == a < maxRetries
\* The for-loop condition of send().
LoopGuard(a, maxRetries) == a <= maxRetries
\* The loop variable is not advanced.
NextAttemptStuck(a) == a
\* attempt++
NextAttempt(a) == a + 1
\* The test lets the last attempt be retried too.
AttemptsRemainInclusive(a, maxRetries) == a <= maxRetries
\* The "attempts remain" test of both retry branches.
AttemptsRemain(a, maxRetries) == a < maxRetries

Min(a, b) == IF a < b THEN a ELSE b
Pow2(n) == IF n <= 0 THEN 1 ELSE 2 ^ n

\* wait without the ceiling.
waitUncapped(delay, a, k) ==
  LET exponentialDelay == delay * Pow2(a)
      jitter == (exponentialDelay * k) \div (JitterDivisor * RandomSteps)
  IN exponentialDelay + jitter
\* wait(delay, attempt): the ms the backoff timer is set to, with
\* Math.random() = k / RandomSteps.
wait(delay, a, k) ==
  LET exponentialDelay == delay * Pow2(a)
      jitter == (exponentialDelay * k) \div (JitterDivisor * RandomSteps)
  IN Min(exponentialDelay + jitter, RETRY_DEFAULTS_MAX_DELAY)

\* retrySettings.delay || 1000
DelayOrDefault(delay) == IF delay = 0 THEN 1000 ELSE delay

Decision(act, err, status) == [act |-> act, err |-> err, status |-> status]

\* The catch block of send() for a caught value of kind exc: what send()
\* does next.  answer is what a function-form predicate does if called.
CatchBlock(exc, a, rs, answer) ==
  IF exc = "nonError"
  THEN Decision("throw", NonError, 0)
  ELSE IF IsAbortError(exc)
  THEN Decision("throw", fromTimeout, 0)
  ELSE IF AttemptsRemain(a, rs.maxRetries)
  THEN CASE shouldRetryError(exc, rs, answer) = "true" -> Decision("retry", NoError, 0)
         [] shouldRetryError(exc, rs, answer) = "false" -> Decision("throw", fromNetworkError, 0)
         [] OTHER -> Decision("throw", RawError, 0)
  ELSE Decision("throw", fromNetworkError, 0)

\* The try block of send() after fetch resolved with a response.  a1 is what
\* the predicate does when asked about the response; an exception it throws
\* is caught by the catch block of send(), where a2 is what it does next.
TryBlock(status, a, rs, a1, a2) ==
  IF ~Ok(status) /\ AttemptsRemain(a, rs.maxRetries)
  THEN CASE shouldRetryResponse(status, rs, a1) = "true" -> Decision("retry", NoError, 0)
         [] shouldRetryResponse(status, rs, a1) = "false" -> Decision("return", NoError, status)
         [] OTHER -> CatchBlock("Error", a, rs, a2)
  ELSE Decision("return", NoError, status)

\* ------------------------------------------------------ ApiRequest.send()
\* The timer of send(): armed or not, the ms left until it is due, the
\* controller it aborts, and the ms the timer before it had left when this
\* one was set.
NoTimer == [armed |-> FALSE, left |-> 0, ctl |-> 0, before |-> 0]

\* new AbortController(): the identity of the controller of this attempt.
NewController(n, a) == n + 1

\* No timer is ever set.
ArmTimerNever(ms, ctl, old) == old
\* The timer of an attempt is given what the timer of the attempt before it
\* had left: one timeout for the whole of send().
ArmTimerCumulative(ms, ctl, old) ==
  IF ms # 0
  THEN [armed |-> TRUE, left |-> IF old.ctl = 0 THEN ms ELSE old.left, ctl |-> ctl,
        before |-> old.left]
  ELSE old
\* this.timeout ? setTimeout(() => controller.abort(), this.timeout) : undefined
\* old is the timer of the previous attempt (cleared by then).
ArmTimer(ms, ctl, old) ==
  IF ms # 0 THEN [armed |-> TRUE, left |-> ms, ctl |-> ctl, before |-> old.left]
  ELSE old

\* The timer is left as it is.
ClearTimerNot(t) == t
\* if (timeoutId) clearTimeout(timeoutId)
ClearTimer(t) == [t EXCEPT !.armed = FALSE]

Pending == [kind |-> "none", status |-> 0, err |-> NoError]
Returned(status) == [kind |-> "response", status |-> status, err |-> NoError]
Threw(err) == [kind |-> "throw", status |-> 0, err |-> err]

Unsettled == [state |-> "pending", what |-> "-", status |-> 0, err |-> NoError]
Resolved(what, status) == [state |-> "resolved", what |-> what, status |-> status, err |-> NoError]
Rejected(err) == [state |-> "rejected", what |-> "-", status |-> 0, err |-> err]

\* A rejection of interceptors.response.execute(): the promise is returned
\* from the try block of Client.request() without being awaited there.
ResponseChainRejection(err) == err

\* One step of Client.request() or Client.execute(): what was done, the
\* transport invocations made by then, the status of the response at hand
\* and, for a handler call, what the handler did.
Event(ev, status, how) == [ev |-> ev, n |-> Len(calls), status |-> status, how |-> how]

\* send() settles with res; the caller of send() goes on.
Settle(res) ==
  /\ sendOutcome' = res
  /\ IF entry = "send"
     THEN /\ pc' = "done"
          /\ hIdx' = hIdx
          /\ outcome' = IF res.kind = "response"
                        THEN Resolved("Response", res.status)
                        ELSE Rejected(res.err)
          /\ events' = events
     ELSE IF res.kind = "response"
     THEN /\ pc' = "respInt"
          /\ hIdx' = 1
          /\ outcome' = outcome
          /\ events' = Append(events, Event("response.execute", res.status, "-"))
     ELSE /\ pc' = "done"
          /\ hIdx' = hIdx
          /\ outcome' = Rejected(normalizeError(res.err))
          /\ events' = events

\* One pass through the head of the loop of send() with loop variable a: a
\* fresh controller, the timer, the transport invocation; or, the loop being
\* over, the fallback throw.
BeginAttempt(a) ==
  /\ attempt' = a
  /\ IF LoopGuard(a, getRetrySettings(retry).maxRetries)
     THEN LET ctl == NewController(nControllers, a)
              t == ArmTimer(timeout, ctl, timer)
          IN /\ nControllers' = IF ctl > nControllers THEN ctl ELSE nControllers
             /\ timer' = t
             /\ calls' = Append(calls, [signal |-> ctl,
                                        signalAborted |-> ctl \in abortedSignals,
                                        timerArmed |-> t.armed /\ t.ctl = ctl,
                                        timerLeft |-> t.left])
             /\ pc' = "fetching"
             /\ UNCHANGED <<hIdx, outcome, sendOutcome, events>>
     ELSE /\ Settle(Threw(RawError))
          /\ UNCHANGED <<nControllers, timer, calls>>
  /\ UNCHANGED <<elsewhere, config, lastError, waitLeft, abortedSignals, outcomes>>

\* What follows a settled transport invocation.
Continue(d, k) ==
  /\ CASE d.act = "retry" ->
            /\ pc' = "waiting"
            /\ waitLeft' = wait(DelayOrDefault(getRetrySettings(retry).delay), attempt, k)
            /\ UNCHANGED <<hIdx, outcome, sendOutcome, events>>
       [] d.act = "return" ->
            /\ Settle(Returned(d.status))
            /\ waitLeft' = waitLeft
       [] OTHER ->
            /\ Settle(Threw(d.err))
            /\ waitLeft' = waitLeft
  /\ timer' = ClearTimer(timer)
  /\ UNCHANGED <<elsewhere, config, attempt, nControllers, abortedSignals, calls>>

CurrentSignal == calls[Len(calls)].signal

\* The caller invokes send() on an ApiRequest directly.
Send ==
  /\ pc = "start" /\ entry = "send"
  /\ BeginAttempt(0)

\* fetch resolves with a response.
FetchResolves ==
  /\ pc = "fetching"
  /\ ~transportHangs
  /\ CurrentSignal \notin abortedSignals
  /\ \E status \in Statuses, a1 \in Answers, a2 \in Answers, k \in RandomSamples :
       /\ outcomes' = Append(outcomes, [kind |-> "response", status |-> status])
       /\ lastError' = (lastError \/ (~Ok(status) /\ AttemptsRemain(attempt, getRetrySettings(retry).maxRetries)
                          /\ shouldRetryResponse(status, getRetrySettings(retry), a1) = "throw"))
       /\ Continue(TryBlock(status, attempt, getRetrySettings(retry), a1, a2), k)

\* fetch rejects although the signal was not aborted.
FetchRejects ==
  /\ pc = "fetching"
  /\ ~transportHangs
  /\ CurrentSignal \notin abortedSignals
  /\ \E exc \in ExceptionKinds, a \in Answers, k \in RandomSamples :
       /\ outcomes' = Append(outcomes, [kind |-> exc, status |-> 0])
       /\ lastError' = (lastError \/ exc # "nonError")
       /\ Continue(CatchBlock(exc, attempt, getRetrySettings(retry), a), k)

\* fetch rejects with an AbortError because the signal it was given aborted.
FetchAborts ==
  /\ pc = "fetching"
  /\ CurrentSignal \in abortedSignals
  /\ \E a \in Answers, k \in RandomSamples :
       /\ outcomes' = Append(outcomes, [kind |-> "AbortError", status |-> 0])
       /\ lastError' = TRUE
       /\ Continue(CatchBlock("AbortError", attempt, getRetrySettings(retry), a), k)

\* The timeout timer is due: controller.abort().
TimerFires ==
  /\ timer.armed /\ timer.left = 0
  /\ timer' = [timer EXCEPT !.armed = FALSE]
  /\ abortedSignals' = abortedSignals \cup {timer.ctl}
  /\ UNCHANGED <<elsewhere, config, pc, hIdx, attempt, lastError, waitLeft, nControllers, calls,
                 outcomes, sendOutcome, outcome, events>>

\* The ms until the next timer of send() is due.
NextDue ==
  LET due == (IF timer.armed THEN {timer.left} ELSE {})
               \cup (IF pc = "waiting" THEN {waitLeft} ELSE {})
  IN IF due = {} THEN 0 ELSE CHOOSE m \in due : \A x \in due : m <= x

\* Time passes: all of the time until the next timer is due, or, while the
\* transport is at work, half of it.
Advance ==
  /\ NextDue > 0
  /\ \E d \in {NextDue} \cup (IF pc = "fetching" THEN {NextDue - (NextDue \div 2)} ELSE {}) :
       /\ timer' = IF timer.armed THEN [timer EXCEPT !.left = timer.left - d] ELSE timer
       /\ waitLeft' = IF pc = "waiting" THEN waitLeft - d ELSE waitLeft
  /\ UNCHANGED <<elsewhere, config, pc, hIdx, attempt, lastError, nControllers, abortedSignals, calls,
                 outcomes, sendOutcome, outcome, events>>

\* The backoff timer is due: the next attempt starts over at the request
\* chain.
WaitDoneRerunsChain ==
  /\ pc = "waiting" /\ waitLeft = 0
  /\ pc' = "reqInt"
  /\ hIdx' = 1
  /\ attempt' = attempt + 1
  /\ events' = Append(events, [ev |-> "request.execute", n |-> Len(calls), status |-> 0, how |-> "-"])
  /\ UNCHANGED <<elsewhere, config, lastError, waitLeft, nControllers, abortedSignals, timer,
                 calls, outcomes, sendOutcome, outcome>>

\* The backoff timer is due: continue with the next attempt.
WaitDone ==
  /\ pc = "waiting" /\ waitLeft = 0
  /\ BeginAttempt(NextAttempt(attempt))

\* ------------------------------------------------------------------ Client
\* A failure of a handler is dropped and the chain goes on.
HandlerResultSwallowed(behaviour) == NoError
\* Interceptor.execute: what one handler call leads to.  Whatever a handler
\* throws is replaced by a raw Error("Interceptor handler failed: ...").
HandlerResult(behaviour) == IF behaviour = "pass" THEN NoError ELSE RawError

\* ApiResponse.getData for the configured responseType and the body found:
\* the promise it returns.
getData(rt, status, body) ==
  CASE rt = "json" ->
         IF body \in {"malformed", "unreadable"}
         THEN Rejected(fromParseError("json", status))
         ELSE Resolved(IF body = "empty" THEN "undefined" ELSE "data", status)
    [] OTHER ->
         IF body = "unreadable"
         THEN Rejected(fromParseError("text", status))
         ELSE Resolved("text", status)

\* The caller invokes Client.request() or a verb: mergeConfig, new
\* ApiRequest, and the request chain is started.
ClientRequest ==
  /\ pc = "start" /\ entry \in {"request", "verb"}
  /\ pc' = "reqInt"
  /\ hIdx' = 1
  /\ events' = Append(events, Event("request.execute", 0, "-"))
  /\ UNCHANGED <<elsewhere, config, sendVars, outcome>>

\* The request chain calls its next handler.
RunRequestHandler ==
  /\ pc = "reqInt" /\ hIdx <= nReqHandlers
  /\ \E b \in HandlerBehaviours :
       /\ IF HandlerResult(b) = NoError
          THEN /\ hIdx' = hIdx + 1
               /\ UNCHANGED <<pc, outcome>>
          ELSE /\ pc' = "done"
               /\ hIdx' = hIdx
               /\ outcome' = Rejected(normalizeError(HandlerResult(b)))
       /\ events' = Append(events, Event("request.handler", 0, b))
  /\ UNCHANGED <<elsewhere, config, sendVars>>

\* The request chain is through: processedRequest.send().
RequestChainDone ==
  /\ pc = "reqInt" /\ hIdx > nReqHandlers
  /\ BeginAttempt(0)

\* The response chain calls its next handler.
RunResponseHandler ==
  /\ pc = "respInt" /\ hIdx <= nRespHandlers
  /\ \E b \in HandlerBehaviours :
       /\ IF HandlerResult(b) = NoError
          THEN /\ hIdx' = hIdx + 1
               /\ UNCHANGED <<pc, outcome>>
          ELSE /\ pc' = "done"
               /\ hIdx' = hIdx
               /\ outcome' = Rejected(ResponseChainRejection(HandlerResult(b)))
       /\ events' = Append(events, Event("response.handler", sendOutcome.status, b))
  /\ UNCHANGED <<elsewhere, config, sendVars>>

\* The response chain is through: request() resolves with the ApiResponse;
\* a verb goes on to decode it.
ResponseChainDone ==
  /\ pc = "respInt" /\ hIdx > nRespHandlers
  /\ IF entry = "verb"
     THEN /\ pc' = "decode"
          /\ outcome' = outcome
     ELSE /\ pc' = "done"
          /\ outcome' = Resolved("ApiResponse", sendOutcome.status)
  /\ events' = Append(events, Event("response.resolves", sendOutcome.status, "-"))
  /\ UNCHANGED <<elsewhere, config, hIdx, sendVars>>

\* Client.execute: response.getData() settles.
Decode ==
  /\ pc = "decode"
  /\ \E body \in BodyKinds :
       outcome' = getData(responseType, sendOutcome.status, body)
  /\ pc' = "done"
  /\ events' = Append(events, Event("getData", sendOutcome.status, "-"))
  /\ UNCHANGED <<elsewhere, config, hIdx, sendVars>>

\* -------------------------------------------------------------- Interceptor
\* A value is written as the item followed by the handlers applied to it:
\* B(A(x)) is <<"x", "A", "B">>.
EmptyMap == [k \in {} |-> "A"]
\* Before the first entry of a Map.
NoHandle == -1

size == Cardinality(DOMAIN handlers)
isEmpty == size = 0

\* this.handlers.set(id, handler) with a key the Map does not hold: the
\* entry is added last in insertion order.
SetKey(map, id, h) == [k \in DOMAIN map \cup {id} |-> IF k = id THEN h ELSE map[k]]

\* Every entry up to the key is removed.
DeleteKeyAndBelow(map, id) == [k \in {j \in DOMAIN map : j > id} |-> map[k]]
\* this.handlers.delete(id)
DeleteKey(map, id) == [k \in DOMAIN map \ {id} |-> map[k]]

\* The iterator passes over the entry that follows the one it yielded.
NextEntrySkipping(map, last) ==
  LET later == {k \in DOMAIN map : k > last + 1}
  IN IF later = {} THEN NoHandle ELSE CHOOSE k \in later : \A j \in later : k <= j
\* The iterator goes to the entry added last.
NextEntryLatest(map, last) ==
  LET later == {k \in DOMAIN map : k > last}
  IN IF later = {} THEN NoHandle ELSE CHOOSE k \in later : \A j \in later : j <= k
\* next() of the Map iterator of `for (const [, handler] of this.handlers)`
\* that yielded the entry `last` before: the next entry in insertion order
\* of the Map as it is now.  Handles are inserted in ascending order.
NextEntry(map, last) ==
  LET later == {k \in DOMAIN map : k > last}
  IN IF later = {} THEN NoHandle ELSE CHOOSE k \in later : \A j \in later : k <= j

\* All execute() calls share one iterator.
IteratorShared(e) == "first"
\* The iterator of the for-of loop belongs to the call that runs the loop.
IteratorOf(e) == e

\* The locals of an execute() call, with the handles it has called
\* (visited), the handles registered when it was called (atStart), and
\* whether use, reject or clear was called since (disturbed).
IdleExec == [st |-> "idle", item |-> "-", result |-> <<>>, pending |-> <<>>,
             visited |-> <<>>, disturbed |-> FALSE, err |-> NoError, atStart |-> {}]
Op(op, arg, ret, threw) == [op |-> op, arg |-> arg, ret |-> ret, threw |-> threw]

\* use, reject or clear is called after these execute() calls were started.
Disturb(ex) ==
  [e \in DOMAIN ex |-> IF ex[e].st # "idle" THEN [ex[e] EXCEPT !.disturbed = TRUE] ELSE ex[e]]

\* new Interceptor()
NewInterceptor ==
  /\ handlers = EmptyMap
  /\ nextId = 0
  /\ iter = [e \in Executions |-> NoHandle]
  /\ exec = [e \in Executions |-> IdleExec]
  /\ issued = <<>>
  /\ lastOp = Op("new", NoHandle, NoHandle, FALSE)

use(h) ==
  /\ nextId < MaxHandles
  /\ IF h = NotAFunction
     THEN /\ lastOp' = Op("use", NoHandle, NoHandle, TRUE)
          /\ UNCHANGED <<handlers, nextId, issued, exec>>
     ELSE /\ handlers' = SetKey(handlers, nextId, h)
          /\ nextId' = nextId + 1
          /\ issued' = Append(issued, nextId)
          /\ lastOp' = Op("use", NoHandle, nextId, FALSE)
          /\ exec' = Disturb(exec)
  /\ UNCHANGED <<iter, exceptInterceptor>>

reject(id) ==
  /\ handlers' = DeleteKey(handlers, id)
  /\ lastOp' = Op("reject", id, NoHandle, FALSE)
  /\ exec' = Disturb(exec)
  /\ UNCHANGED <<nextId, iter, issued, exceptInterceptor>>

\* clear() that also starts the handles over.
clearAndReset ==
  /\ handlers' = EmptyMap
  /\ nextId' = 0
  /\ lastOp' = Op("clear", NoHandle, NoHandle, FALSE)
  /\ exec' = Disturb(exec)
  /\ UNCHANGED <<iter, issued, exceptInterceptor>>

clear ==
  /\ handlers' = EmptyMap
  /\ lastOp' = Op("clear", NoHandle, NoHandle, FALSE)
  /\ exec' = Disturb(exec)
  /\ UNCHANGED <<nextId, iter, issued, exceptInterceptor>>

\* The head of the for-of loop of execute() call e, with iterators it and
\* locals ex: the iterator is advanced and the handler it yields is called
\* with `result`; when it yields none, execute() returns `result`.
LoopHead(e, it, ex) ==
  LET id == NextEntry(handlers, it[IteratorOf(e)])
  IN IF id = NoHandle
     THEN /\ iter' = it
          /\ exec' = [ex EXCEPT ![e].st = "resolved"]
     ELSE /\ iter' = [it EXCEPT ![IteratorOf(e)] = id]
          /\ exec' = [ex EXCEPT ![e].st = "awaiting",
                                ![e].pending = Append(ex[e].result, handlers[id]),
                                ![e].visited = Append(ex[e].visited, id)]

\* execute(item) is called: it runs up to its first await.
execute(e, item) ==
  /\ exec[e].st = "idle"
  /\ LoopHead(e, [iter EXCEPT ![IteratorOf(e)] = NoHandle],
              [exec EXCEPT ![e].item = item, ![e].result = <<item>>,
                           ![e].atStart = DOMAIN handlers])
  /\ lastOp' = Op("execute", NoHandle, NoHandle, FALSE)
  /\ UNCHANGED <<handlers, nextId, issued, exceptInterceptor>>

\* The handler that execute() call e awaits settles: its value becomes
\* `result` and the loop goes on, or what it threw is replaced by the
\* Error("Interceptor handler failed: ...") that execute() rejects with.
HandlerSettles(e) ==
  /\ exec[e].st = "awaiting"
  /\ \E b \in HandlerBehaviours :
       IF HandlerResult(b) = NoError
       THEN LoopHead(e, iter, [exec EXCEPT ![e].result = exec[e].pending, ![e].pending = <<>>])
       ELSE /\ exec' = [exec EXCEPT ![e].st = "rejected", ![e].pending = <<>>,
                                    ![e].err = HandlerResult(b)]
            /\ iter' = iter
  /\ lastOp' = Op("settle", NoHandle, NoHandle, FALSE)
  /\ UNCHANGED <<handlers, nextId, issued, exceptInterceptor>>

\* -------------------------------------------------- two calls on one Client
\* All calls count their attempts in one place.
CounterShared(c) == "p"
\* `attempt` is a local of send(), and each request() has its own ApiRequest.
CounterOf(c) == c

NotCalled == [st |-> "idle", retry |-> [kind |-> "absent", maxRetries |-> 0, delay |-> None, shouldRetry |-> None],
              log |-> <<>>, result |-> Pending]

NoFlights ==
  /\ flight = [c \in Calls |-> NotCalled]
  /\ attempts = [c \in Calls |-> 0]
  /\ wire = <<>>

\* Client.request() is called: mergeConfig, new ApiRequest, and the call
\* awaits the request chain.
RequestOf(c, r) ==
  /\ flight[c].st = "idle"
  /\ flight' = [flight EXCEPT ![c].st = "reqInt", ![c].retry = r]
  /\ UNCHANGED <<attempts, wire, exceptFlights>>

\* The head of the loop of send() of call c with loop variable a.
BeginAttemptOf(c, a, fl) ==
  /\ attempts' = [attempts EXCEPT ![CounterOf(c)] = a]
  /\ IF LoopGuard(a, getRetrySettings(fl[c].retry).maxRetries)
     THEN /\ wire' = Append(wire, c)
          /\ flight' = [fl EXCEPT ![c].st = "fetching"]
     ELSE /\ wire' = wire
          /\ flight' = [fl EXCEPT ![c].st = "done", ![c].result = Threw(RawError)]

\* The request chain of call c resolved: send() starts.
SendOf(c) ==
  /\ flight[c].st = "reqInt"
  /\ BeginAttemptOf(c, 0, flight)
  /\ UNCHANGED exceptFlights

\* The transport call of call c settles with o.
FetchSettlesOf(c, o) ==
  /\ flight[c].st = "fetching"
  /\ LET rs == getRetrySettings(flight[c].retry)
         a == attempts[CounterOf(c)]
         d == IF o.kind = "response"
              THEN TryBlock(o.status, a, rs, "false", "false")
              ELSE CatchBlock(o.kind, a, rs, "false")
         logged == [flight EXCEPT ![c].log = Append(@, o)]
     IN flight' = CASE d.act = "retry" -> [logged EXCEPT ![c].st = "waiting"]
                    [] d.act = "return" -> [logged EXCEPT ![c].st = "done", ![c].result = Returned(d.status)]
                    [] OTHER -> [logged EXCEPT ![c].st = "done", ![c].result = Threw(d.err)]
  /\ UNCHANGED <<attempts, wire, exceptFlights>>

\* The next attempt of call c starts while its transport call is outstanding.
WaitDoneOfEarly(c) ==
  /\ flight[c].st \in {"waiting", "fetching"}
  /\ BeginAttemptOf(c, NextAttempt(attempts[CounterOf(c)]), flight)
  /\ UNCHANGED exceptFlights

\* The backoff timer of call c is due.
WaitDoneOf(c) ==
  /\ flight[c].st = "waiting"
  /\ BeginAttemptOf(c, NextAttempt(attempts[CounterOf(c)]), flight)
  /\ UNCHANGED exceptFlights

\* ------------------------------------------------- ApiRequest: the payload
NoBody == [enc |-> "null", of |-> "-"]

isNativeBodyType(data) == data \in {"string", "native"}

\* createBody that looks at the data only.
createBodyAnyMethod(method, data) ==
  IF data \in {"null", "undefined"} THEN NoBody
  ELSE IF isNativeBodyType(data) THEN [enc |-> "asis", of |-> data]
  ELSE IF data = "object" THEN [enc |-> "JSON.stringify", of |-> data]
  ELSE [enc |-> "String", of |-> data]
\* createBody(): the body handed to fetch.
createBody(method, data) ==
  IF method \in READ_ONLY_METHODS \/ data \in {"null", "undefined"} THEN NoBody
  ELSE IF isNativeBodyType(data) THEN [enc |-> "asis", of |-> data]
  ELSE IF data = "object" THEN [enc |-> "JSON.stringify", of |-> data]
  ELSE [enc |-> "String", of |-> data]

\* createBody(): the Content-Type of this.headers after it.
ContentTypeAfterCreateBody(method, data, contentType) ==
  IF method \in READ_ONLY_METHODS \/ data \in {"null", "undefined"} THEN contentType
  ELSE IF isNativeBodyType(data) THEN contentType
  ELSE IF data = "object" THEN JSON_CONTENT_TYPE
  ELSE contentType

\* configContentType is the Content-Type of this.config.headers, which stays
\* as the caller gave it; contentType is the one of this.headers.
NotBuilt == [st |-> "none", method |-> "GET", data |-> "undefined", contentType |-> "absent",
             configContentType |-> "absent",
             retry |-> [kind |-> "absent", maxRetries |-> 0, delay |-> None, shouldRetry |-> None],
             attempt |-> 0, log |-> <<>>, waitMs |-> 0, result |-> Pending]

NoPayload ==
  /\ req = NotBuilt
  /\ sent = <<>>

\* new ApiRequest(config)
NewApiRequest(m, d, ct, r) ==
  /\ req.st = "none"
  /\ req' = [req EXCEPT !.st = "built", !.method = m, !.data = d, !.contentType = ct,
                        !.configContentType = ct, !.retry = r]
  /\ UNCHANGED <<sent, exceptPayload>>

\* The head of the loop of send() with loop variable a: the arguments of
\* fetch are built, createBody() included, and fetch is called.
BeginAttemptBuilt(a, rq) ==
  IF LoopGuard(a, getRetrySettings(rq.retry).maxRetries)
  THEN /\ sent' = Append(sent, [method |-> rq.method,
                                body |-> createBody(rq.method, rq.data),
                                contentType |-> ContentTypeAfterCreateBody(rq.method, rq.data, rq.contentType)])
       /\ req' = [rq EXCEPT !.st = "fetching", !.attempt = a,
                            !.contentType = ContentTypeAfterCreateBody(rq.method, rq.data, rq.contentType)]
  ELSE /\ sent' = sent
       /\ req' = [rq EXCEPT !.st = "done", !.attempt = a, !.result = Threw(RawError)]

\* send() is called on the ApiRequest.
SendBuilt ==
  /\ req.st = "built"
  /\ BeginAttemptBuilt(0, req)
  /\ UNCHANGED exceptPayload

\* What the predicate did when send() asked it about o in attempt a
\* ("-": it was not asked); a1 is what it does when called.
Asked(o, a, rs, a1) ==
  IF /\ rs.shouldRetry.form = "function"
     /\ AttemptsRemain(a, rs.maxRetries)
     /\ \/ o.kind = "response" /\ ~Ok(o.status)
        \/ o.kind = "Error"
  THEN a1 ELSE "-"

\* How often send() called the predicate in attempt a, which settled with o:
\* once in the try block for a non-2xx response, and, when it threw there or
\* fetch threw an Error that is no abort, once in the catch block.
PredicateCalls(o, a, rs, a1) ==
  IF rs.shouldRetry.form # "function" \/ ~AttemptsRemain(a, rs.maxRetries) THEN 0
  ELSE IF o.kind = "response"
  THEN IF Ok(o.status) THEN 0 ELSE IF a1 = "throw" THEN 2 ELSE 1
  ELSE IF o.kind = "Error" THEN 1 ELSE 0

\* The transport call settles with o.  a1 and a2 are what a function-form
\* predicate does on its first and second call, k is the sample of
\* Math.random() that wait() draws.
FetchSettlesBuilt(o, a1, a2, k) ==
  /\ req.st = "fetching"
  /\ LET rs == getRetrySettings(req.retry)
         d == IF o.kind = "response"
              THEN TryBlock(o.status, req.attempt, rs, a1, a2)
              ELSE CatchBlock(o.kind, req.attempt, rs, a1)
         logged == [req EXCEPT !.log = Append(@, [kind |-> o.kind, status |-> o.status,
                                                  answer |-> Asked(o, req.attempt, rs, a1),
                                                  asked |-> PredicateCalls(o, req.attempt, rs, a1)])]
     IN req' = CASE d.act = "retry" ->
                      [logged EXCEPT !.st = "waiting",
                                     !.waitMs = wait(DelayOrDefault(rs.delay), req.attempt, k)]
                 [] d.act = "return" -> [logged EXCEPT !.st = "done", !.result = Returned(d.status)]
                 [] OTHER -> [logged EXCEPT !.st = "done", !.result = Threw(d.err)]
  /\ UNCHANGED <<sent, exceptPayload>>

\* The backoff timer is due.
WaitDoneBuilt ==
  /\ req.st = "waiting"
  /\ BeginAttemptBuilt(NextAttempt(req.attempt), [req EXCEPT !.waitMs = 0])
  /\ UNCHANGED exceptPayload

\* --------------------------------------------------- Client: configuration
\* A plain object is the sequence of its <<key, value>> properties in
\* insertion order; keys are compared as written.
Keys(obj) == {obj[i][1] : i \in DOMAIN obj}
\* obj[k] = v
PutProp(obj, k, v) ==
  IF k \in Keys(obj)
  THEN [i \in DOMAIN obj |-> IF obj[i][1] = k THEN <<k, v>> ELSE obj[i]]
  ELSE Append(obj, <<k, v>>)
\* delete obj[k]
DeleteProp(obj, k) == SelectSeq(obj, LAMBDA p : p[1] # k)
\* {...a, ...b}
RECURSIVE SpreadProps(_, _)
SpreadProps(a, b) ==
  IF b = <<>> THEN a ELSE SpreadProps(PutProp(a, Head(b)[1], Head(b)[2]), Tail(b))

\* The name a Headers object files a header under.
Lower(name) == CASE name = "X-A" -> "x-a" [] OTHER -> name
\* new Headers(obj): per name, the values appended under it, in order
\* (get() joins them with ", ").
NewHeaders(obj) ==
  [n \in {Lower(k) : k \in HeaderNames} |->
     LET under == SelectSeq(obj, LAMBDA p : Lower(p[1]) = n)
     IN [i \in DOMAIN under |-> under[i][2]]]

\* /^https?:\/\//.test(url)
StartsWithHttp(url) == Len(url) >= 2 /\ url[1] \in {"http", "https"} /\ url[2] = "://"

\* validateConfig(): "ok", or the message of the Error it throws.
validateConfig(cfg) ==
  IF cfg.timeout # None /\ cfg.timeout[1] # 0 /\ cfg.timeout[1] <= 0
  THEN "Timeout must be greater than 0"
  ELSE IF cfg.baseURL # None /\ cfg.baseURL[1] # <<>> /\ ~StartsWithHttp(cfg.baseURL[1])
  THEN "BaseURL must be a valid HTTP/HTTPS URL"
  ELSE "ok"

\* No Client yet.  There are two header objects: the one the caller passes
\* to the constructor ("given"), and the {} the constructor makes when none
\* is passed ("fresh").
NoClient ==
  /\ client = [st |-> "none", timeout |-> None, baseURL |-> None, responseType |-> None,
               headers |-> "fresh"]
  /\ heap = [r \in {"given", "fresh"} |-> <<>>]
  /\ returned = [held |-> FALSE, timeout |-> None, headers |-> "fresh"]
  /\ merged = [made |-> FALSE,
               given |-> [timeout |-> None, responseType |-> None, headers |-> None],
               timeout |-> None, responseType |-> DEFAULT_RESPONSE_TYPE, headers |-> <<>>,
               outgoing |-> NewHeaders(<<>>), sent |-> <<>>]
  /\ clientOp = "none"

\* new Client(cfg): this.config = {headers: {}, ...cfg}, then
\* validateConfig(); when that throws there is no Client.
NewClient(cfg) ==
  /\ client.st = "none"
  /\ client' = [st |-> IF validateConfig(cfg) = "ok" THEN "built" ELSE "failed",
                timeout |-> cfg.timeout, baseURL |-> cfg.baseURL,
                responseType |-> cfg.responseType,
                headers |-> IF cfg.headers = None THEN "fresh" ELSE "given"]
  /\ heap' = [heap EXCEPT !["given"] = IF cfg.headers = None THEN <<>> ELSE cfg.headers[1]]
  /\ clientOp' = "new"
  /\ UNCHANGED <<returned, merged, exceptClient>>

\* setHeader(name, value)
setHeader(name, value) ==
  /\ client.st = "built"
  /\ heap' = [heap EXCEPT ![client.headers] = PutProp(@, name, value)]
  /\ clientOp' = "setHeader"
  /\ UNCHANGED <<client, returned, merged, exceptClient>>

\* removeHeader(name)
removeHeader(name) ==
  /\ client.st = "built"
  /\ heap' = [heap EXCEPT ![client.headers] = DeleteProp(@, name)]
  /\ clientOp' = "removeHeader"
  /\ UNCHANGED <<client, returned, merged, exceptClient>>

\* getConfig(): {...this.config}; the copy holds the same headers object.
getConfig ==
  /\ client.st = "built"
  /\ returned' = [held |-> TRUE, timeout |-> client.timeout, headers |-> client.headers]
  /\ clientOp' = "getConfig"
  /\ UNCHANGED <<client, heap, merged, exceptClient>>

\* The caller assigns to a property of the object getConfig() returned.
WriteReturnedTimeout(t) ==
  /\ returned.held
  /\ returned' = [returned EXCEPT !.timeout = t]
  /\ clientOp' = "caller"
  /\ UNCHANGED <<client, heap, merged, exceptClient>>

\* The caller assigns to a header of the object getConfig() returned.
WriteReturnedHeader(name, value) ==
  /\ returned.held
  /\ heap' = [heap EXCEPT ![returned.headers] = PutProp(@, name, value)]
  /\ clientOp' = "caller"
  /\ UNCHANGED <<client, returned, merged, exceptClient>>

\* The caller assigns to a header of the object it passed to the constructor.
WriteGivenHeader(name, value) ==
  /\ client.st = "built"
  /\ client.headers = "given"
  /\ heap' = [heap EXCEPT !["given"] = PutProp(@, name, value)]
  /\ clientOp' = "caller"
  /\ UNCHANGED <<client, returned, merged, exceptClient>>

\* mergeConfig(requestConfig) on a Client whose config is cfg and whose
\* headers object is defaults.
mergeConfig(cfg, defaults, rc) ==
  [timeout |-> IF rc.timeout # None THEN rc.timeout ELSE cfg.timeout,
   headers |-> SpreadProps(SpreadProps(<<>>, defaults),
                           IF rc.headers = None THEN <<>> ELSE rc.headers[1]),
   responseType |-> IF rc.responseType # None THEN rc.responseType[1]
                    ELSE IF cfg.responseType # None THEN cfg.responseType[1]
                    ELSE DEFAULT_RESPONSE_TYPE]

\* Client.request(rc) up to new ApiRequest(mergedConfig).
MergeForRequest(rc) ==
  /\ client.st = "built"
  /\ LET m == mergeConfig(client, heap[client.headers], rc)
     IN merged' = [made |-> TRUE, given |-> rc, timeout |-> m.timeout,
                   responseType |-> m.responseType, headers |-> m.headers,
                   outgoing |-> NewHeaders(m.headers), sent |-> <<>>]
  /\ clientOp' = "request"
  /\ UNCHANGED <<client, heap, returned, exceptClient>>

\* The headers of an attempt looked up in the Client's defaults when the
\* attempt is made.
RequestInitHeadersLive(m, defaults) ==
  NewHeaders(SpreadProps(SpreadProps(<<>>, defaults),
                         IF m.given.headers = None THEN <<>> ELSE m.given.headers[1]))
\* The headers member of the RequestInit an attempt of send() passes to
\* fetch: this.headers, the Headers object the ApiRequest constructor made
\* from the merged config.  defaults is the Client's headers object at the
\* time of the attempt.
RequestInitHeaders(m, defaults) == m.outgoing

\* One attempt of the send() of the request made last: fetch is handed the
\* headers.
SendAttempt ==
  /\ merged.made
  /\ Len(merged.sent) < MaxRetriesBound
  /\ merged' = [merged EXCEPT !.sent = Append(@, RequestInitHeaders(merged, heap[client.headers]))]
  /\ clientOp' = "attempt"
  /\ UNCHANGED <<client, heap, returned, exceptClient>>

\* ------------------------------------------------------------ ApiResponse
NotReceived ==
  [st |-> "none", status |-> 200, contentType |-> <<>>, body |-> "empty",
   responseType |-> DEFAULT_RESPONSE_TYPE, bodyUsed |-> FALSE, reads |-> 0]

NoResponse ==
  /\ resp = NotReceived
  /\ decoded = <<>>

\* new ApiResponse(rawResponse, request)
NewApiResponse(status, ct, body, rt) ==
  /\ resp.st = "none"
  /\ resp' = [NotReceived EXCEPT !.st = "built", !.status = status, !.contentType = ct,
                                 !.body = body, !.responseType = rt]
  /\ UNCHANGED <<decoded, exceptResponse>>

\* contentType.includes(part)
Includes(ct, part) == \E i \in DOMAIN ct : ct[i] = part
\* CONTENT_TYPES.BINARY.test(contentType)
BinaryTest(ct) ==
  /\ ct # <<>>
  /\ \/ ct[1] \in {"image/", "video/", "audio/"}
     \/ Len(ct) >= 2 /\ ct[1] = "application/" /\ ct[2] = "octet-stream"

\* A body that can be read any number of times.
ReadBodyAgain(r) ==
  [ok |-> r.body # "unreadable",
   content |-> r.body,
   resp |-> [r EXCEPT !.bodyUsed = TRUE, !.reads = @ + 1]]
\* One of response.text(), response.blob(), response.arrayBuffer() of the
\* transport response: it fails on a body that was read before or cannot be
\* read, and the body counts as read from then on.
ReadBody(r) ==
  [ok |-> ~r.bodyUsed /\ r.body # "unreadable",
   content |-> r.body,
   resp |-> [r EXCEPT !.bodyUsed = TRUE, !.reads = @ + 1]]

\* text.trim()
Trim(content) == IF content = "blank" THEN "empty" ELSE content

\* What a decode operation leads to: the promise it returns, the decoders
\* it went through, and the response afterwards.
Decoded(out, via, r) == [out |-> out, via |-> via, resp |-> r]

\* ApiResponse.json()
json(r) ==
  LET rd == ReadBody(r)
  IN Decoded(IF ~rd.ok THEN Rejected(fromParseError("json", r.status))
             ELSE IF Trim(rd.content) = "empty" THEN Resolved("undefined", r.status)
             ELSE IF rd.content = "malformed" THEN Rejected(fromParseError("json", r.status))
             ELSE Resolved("data", r.status),
             <<"json">>, rd.resp)

\* text() that lets the failure of the read through.
textUnwrapped(r) ==
  LET rd == ReadBody(r)
  IN Decoded(IF ~rd.ok THEN Rejected(RawError) ELSE Resolved("text", r.status),
             <<"text">>, rd.resp)
\* ApiResponse.text()
text(r) ==
  LET rd == ReadBody(r)
  IN Decoded(IF ~rd.ok THEN Rejected(fromParseError("text", r.status))
             ELSE Resolved("text", r.status),
             <<"text">>, rd.resp)

\* ApiResponse.blob()
blob(r) ==
  LET rd == ReadBody(r)
  IN Decoded(IF ~rd.ok THEN Rejected(fromParseError("blob", r.status))
             ELSE Resolved("blob", r.status),
             <<"blob">>, rd.resp)

\* ApiResponse.arrayBuffer()
arrayBuffer(r) ==
  LET rd == ReadBody(r)
  IN Decoded(IF ~rd.ok THEN Rejected(fromParseError("arrayBuffer", r.status))
             ELSE Resolved("arrayBuffer", r.status),
             <<"arrayBuffer">>, rd.resp)

\* getContentType(): <<>> when there is no header
getContentType(r) == r.contentType

\* The rules of autoParseData with the text test ahead of the JSON test.
byContentTypeTextFirst(r) ==
  LET contentType == getContentType(r)
  IN IF contentType = <<>>
     THEN LET j == json(r)
          IN IF j.out.state = "resolved" THEN j
             ELSE LET t == text(j.resp) IN Decoded(t.out, j.via \o t.via, t.resp)
     ELSE IF \E type \in CONTENT_TYPES_TEXT : Includes(contentType, type) THEN text(r)
     ELSE IF Includes(contentType, CONTENT_TYPES_JSON) THEN json(r)
     ELSE IF BinaryTest(contentType) THEN blob(r)
     ELSE json(r)
\* autoParseData(), rules 2 to 6: the decoder chosen by the Content-Type.
byContentType(r) ==
  LET contentType == getContentType(r)
  IN IF contentType = <<>>
     THEN LET j == json(r)
          IN IF j.out.state = "resolved" THEN j
             ELSE LET t == text(j.resp) IN Decoded(t.out, j.via \o t.via, t.resp)
     ELSE IF Includes(contentType, CONTENT_TYPES_JSON) THEN json(r)
     ELSE IF \E type \in CONTENT_TYPES_TEXT : Includes(contentType, type) THEN text(r)
     ELSE IF BinaryTest(contentType) THEN blob(r)
     ELSE json(r)

\* autoParseData that does not look at the status.
autoParseDataAnyStatus(r) == byContentType(r)
\* autoParseData()
autoParseData(r) ==
  IF r.status \in {HTTP_STATUS_NO_CONTENT, HTTP_STATUS_NOT_MODIFIED}
  THEN Decoded(Resolved("undefined", r.status), <<>>, r)
  ELSE byContentType(r)

\* ApiResponse.getData(): the switch on request.config.responseType
dispatch(r) ==
  CASE r.responseType = "json" -> json(r)
    [] r.responseType = "text" -> text(r)
    [] r.responseType = "blob" -> blob(r)
    [] r.responseType = "arrayBuffer" -> arrayBuffer(r)
    [] OTHER -> autoParseData(r)

\* The caller invokes one decode operation and it settles.
DecodeCall(op) ==
  /\ resp.st = "built"
  /\ Len(decoded) < MaxDecodes
  /\ LET d == CASE op = "getData" -> dispatch(resp)
                [] op = "json" -> json(resp)
                [] op = "text" -> text(resp)
                [] op = "blob" -> blob(resp)
                [] OTHER -> arrayBuffer(resp)
     IN /\ resp' = d.resp
        /\ decoded' = Append(decoded, [op |-> op, out |-> d.out, via |-> d.via,
                                       fresh |-> ~resp.bodyUsed,
                                       reads |-> d.resp.reads - resp.reads])
  /\ UNCHANGED exceptResponse

\* ------------------------------------------------------------ specification
Init ==
  /\ entry \in {"send", "request", "verb"}
  /\ retry \in RetryPolicies
  /\ timeout \in Timeouts
  /\ transportHangs \in BOOLEAN
  /\ responseType \in (IF entry = "verb" THEN ResponseTypes ELSE {"json"})
  /\ nReqHandlers \in (IF entry = "send" THEN {0} ELSE 0 .. MaxRequestHandlers)
  /\ nRespHandlers \in (IF entry = "send" THEN {0} ELSE 0 .. MaxHandlers)
  /\ pc = "start"
  /\ hIdx = 1
  /\ attempt = 0
  /\ lastError = FALSE
  /\ waitLeft = 0
  /\ nControllers = 0
  /\ abortedSignals = {}
  /\ timer = NoTimer
  /\ calls = <<>>
  /\ outcomes = <<>>
  /\ sendOutcome = Pending
  /\ outcome = Unsettled
  /\ events = <<>>
  /\ NewInterceptor
  /\ NoFlights
  /\ NoPayload
  /\ NoClient
  /\ NoResponse

Next ==
  \/ Send
  \/ ClientRequest
  \/ RunRequestHandler
  \/ RequestChainDone
  \/ FetchResolves
  \/ FetchRejects
  \/ FetchAborts
  \/ TimerFires
  \/ Advance
  \/ WaitDone
  \/ RunResponseHandler
  \/ ResponseChainDone
  \/ Decode

Spec == Init /\ [][Next]_vars

\* The event loop runs every continuation that is ready and every timer that
\* is due, time passes, and fetch rejects once its signal is aborted.
FairSpec ==
  /\ Spec
  /\ WF_vars(Advance)
  /\ WF_vars(TimerFires)
  /\ WF_vars(FetchAborts)
  /\ WF_vars(WaitDone)
  /\ WF_vars(RequestChainDone)

\* A Client nobody has called.
NoCall ==
  /\ entry = "request"
  /\ retry = [kind |-> "absent", maxRetries |-> 0, delay |-> None, shouldRetry |-> None]
  /\ timeout = 0
  /\ transportHangs = FALSE
  /\ responseType = "json"
  /\ nReqHandlers = 0
  /\ nRespHandlers = 0
  /\ pc = "start"
  /\ hIdx = 1
  /\ attempt = 0
  /\ lastError = FALSE
  /\ waitLeft = 0
  /\ nControllers = 0
  /\ abortedSignals = {}
  /\ timer = NoTimer
  /\ calls = <<>>
  /\ outcomes = <<>>
  /\ sendOutcome = Pending
  /\ outcome = Unsettled
  /\ events = <<>>

\* One Interceptor: use, reject and clear are called at any time, also
\* while an execute() call is suspended at an await.
InterceptorInit == NoCall /\ NewInterceptor /\ NoFlights /\ NoPayload /\ NoClient /\ NoResponse

InterceptorNext ==
  \/ \E h \in Handlers \cup {NotAFunction} : use(h)
  \/ \E id \in Handles : reject(id)
  \/ clear
  \/ \E e \in Executions, item \in Items : execute(e, item)
  \/ \E e \in Executions : HandlerSettles(e)

InterceptorSpec == InterceptorInit /\ [][InterceptorNext]_vars

\* Two calls issued on one Client with bare-integer retry policies and no
\* timeout; their continuations run in any order.
FlightsInit == NoCall /\ NewInterceptor /\ NoFlights /\ NoPayload /\ NoClient /\ NoResponse

FlightsNext ==
  \/ \E c \in Calls, r \in {x \in RetryPolicies : x.kind = "number"} : RequestOf(c, r)
  \/ \E c \in Calls : SendOf(c)
  \/ \E c \in Calls, o \in TransportOutcomes : FetchSettlesOf(c, o)
  \/ \E c \in Calls : WaitDoneOf(c)

FlightsSpec == FlightsInit /\ [][FlightsNext]_vars

\* One ApiRequest with any method, data and Content-Type and no timeout.
PayloadInit == NoCall /\ NewInterceptor /\ NoFlights /\ NoPayload /\ NoClient /\ NoResponse

PayloadNext ==
  \/ \E m \in HttpMethods, d \in DataKinds, ct \in ContentTypes,
        r \in PayloadPolicies : NewApiRequest(m, d, ct, r)
  \/ SendBuilt
  \/ \E o \in PayloadOutcomes, a1 \in Answers, a2 \in Answers, k \in RandomSamples :
       FetchSettlesBuilt(o, a1, a2, k)
  \/ WaitDoneBuilt

PayloadSpec == PayloadInit /\ [][PayloadNext]_vars

\* One Client: it is constructed, its default headers are set and removed,
\* its configuration is read and merged, and the caller writes to the
\* objects it holds.
ConfigInit == NoCall /\ NewInterceptor /\ NoFlights /\ NoPayload /\ NoClient /\ NoResponse

ConfigNext ==
  \/ \E cfg \in ClientConfigs : NewClient(cfg)
  \/ \E n \in HeaderNames, v \in HeaderValues : setHeader(n, v)
  \/ \E n \in HeaderNames : removeHeader(n)
  \/ getConfig
  \/ \E t \in {Some(-1)} : WriteReturnedTimeout(t)
  \/ \E n \in HeaderNames, v \in HeaderValues : WriteReturnedHeader(n, v)
  \/ \E n \in HeaderNames, v \in HeaderValues : WriteGivenHeader(n, v)
  \/ \E rc \in RequestConfigs : MergeForRequest(rc)
  \/ SendAttempt

ConfigSpec == ConfigInit /\ [][ConfigNext]_vars

\* One ApiResponse of any status, Content-Type and body; the caller invokes
\* its decode operations.
DecodeInit == NoCall /\ NewInterceptor /\ NoFlights /\ NoPayload /\ NoClient /\ NoResponse

DecodeNext ==
  \/ \E status \in DecodeStatuses, ct \in MediaTypes, body \in DecodeBodies,
        rt \in AllResponseTypes : NewApiResponse(status, ct, body, rt)
  \/ \E op \in {"getData", "json", "text", "blob", "arrayBuffer"} : DecodeCall(op)

DecodeSpec == DecodeInit /\ [][DecodeNext]_vars

\* ------------------------------------------------------------------ claims
Settings == getRetrySettings(retry)
SendSettled == sendOutcome.kind # "none"
Last(seq) == seq[Len(seq)]

\* A settled transport invocation failed with a condition the default policy
\* retries: a non-2xx response whose status is in the default status set, or
\* an Error that is not an abort.
RetryableFailure(o) ==
  \/ o.kind = "response" /\ ~Ok(o.status) /\ o.status \in DEFAULT_RETRY_STATUSES
  \/ o.kind = "Error"

\* C1: with a bare integer N as the retry policy, a send() whose every
\* attempt failed with a retryable condition has made exactly N + 1 transport
\* invocations when it settles.
C1_BareIntegerAttempts ==
  (retry.kind = "number" /\ SendSettled
     /\ \A i \in DOMAIN outcomes : RetryableFailure(outcomes[i]))
  => Len(calls) = retry.maxRetries + 1

C1_Witness ==
  /\ retry.kind = "number" /\ retry.maxRetries = 2
  /\ SendSettled
  /\ Len(calls) = 3
  /\ outcomes = <<[kind |-> "response", status |-> 500], [kind |-> "Error", status |-> 0],
                 [kind |-> "response", status |-> 500]>>

\* C2: in every state of a send() the transport invocations made so far are
\* at most maxRetries + 1, whatever the transport and the predicate do.
C2_AttemptsBounded == Len(calls) <= Settings.maxRetries + 1

C2_Witness ==
  /\ Settings.shouldRetry.form = "function"
  /\ Settings.maxRetries = 2
  /\ Len(calls) = 3
  /\ SendSettled

\* The first responses of the log are non-2xx responses with a status in S.
AllRetriedBy(S, n) ==
  \A i \in 1 .. n :
    outcomes[i].kind = "response" /\ ~Ok(outcomes[i].status) /\ outcomes[i].status \in S

\* C3: with a structured policy {maxRetries: M, shouldRetry: array S}, while
\* the transport has answered k <= M attempts, all with non-2xx statuses in
\* S, send() goes on to the next attempt; and when attempt k + 1 is answered
\* with a 2xx response, send() resolves with that response after exactly
\* k + 1 transport invocations.
C3_RetryThenSuccess ==
  (retry.kind = "object" /\ Settings.shouldRetry.form = "array")
  => LET S == Settings.shouldRetry.statuses
         n == Len(outcomes)
     IN /\ (n <= Settings.maxRetries /\ AllRetriedBy(S, n)) => ~SendSettled
        /\ (n >= 1 /\ Last(outcomes).kind = "response" /\ Ok(Last(outcomes).status)
              /\ AllRetriedBy(S, n - 1))
           => /\ sendOutcome = Returned(Last(outcomes).status)
              /\ Len(calls) = n

C3_Witness ==
  /\ retry.kind = "object" /\ retry.maxRetries = 2
  /\ retry.shouldRetry = Some(ArrayPredicate({500}))
  /\ outcomes = <<[kind |-> "response", status |-> 500], [kind |-> "response", status |-> 500],
                 [kind |-> "response", status |-> 200]>>
  /\ sendOutcome = Returned(200)
  /\ Len(calls) = 3

C5_TimeoutIsRetried ==
  (entry = "verb" /\ nReqHandlers = 0 /\ timeout > 0 /\ transportHangs
     /\ retry.kind = "object" /\ retry.maxRetries = 2
     /\ retry.shouldRetry = Some(FunctionPredicate)
     /\ outcome.state = "rejected")
  => (Len(calls) = 3 /\ outcome.err = fromTimeout)

\* C6: with a positive timeout and a transport that never settles on its
\* own, a send() whose transport call is outstanding eventually rejects with
\* the TIMEOUT ApiError, status 408.
C6_TimeoutEventuallyRejects ==
  (transportHangs /\ timeout > 0 /\ pc = "fetching")
    ~> (sendOutcome = Threw(fromTimeout) /\ sendOutcome.err.status = 408)

C6_Witness ==
  /\ transportHangs /\ timeout > 0
  /\ sendOutcome = Threw(fromTimeout)
  /\ outcomes = <<[kind |-> "AbortError", status |-> 0]>>

\* C7: every transport invocation is given a signal no earlier invocation
\* was given and that is not aborted, and, when a timeout is configured, a
\* timer set to the full timeout that aborts this signal; the timer that is
\* armed while the transport is at work is the one of the current attempt.
C7_TimeoutPerAttempt ==
  /\ \A i \in DOMAIN calls :
       /\ \A j \in 1 .. (i - 1) : calls[j].signal # calls[i].signal
       /\ ~calls[i].signalAborted
       /\ timeout > 0 => (calls[i].timerArmed /\ calls[i].timerLeft = timeout)
  /\ (pc = "fetching" /\ timer.armed) => (timer.ctl = CurrentSignal /\ timer.left <= timeout)
  /\ \A c \in abortedSignals : Cardinality({i \in DOMAIN calls : calls[i].signal = c}) = 1

\* A later attempt starts with the full timeout although the attempt before
\* it used up part of its own.
C7_Witness ==
  /\ timeout > 0
  /\ Len(calls) >= 2
  /\ pc = "fetching"
  /\ timer.armed /\ timer.left = timeout /\ timer.before < timeout
  /\ calls[Len(calls)].timerLeft = timeout

\* C8: whenever the last transport invocation of a send() yielded a
\* response, send() resolves with that response.
C8_LastResponseIsReturned ==
  (SendSettled /\ outcomes # <<>> /\ Len(outcomes) = Len(calls)
     /\ Last(outcomes).kind = "response")
  => sendOutcome = Returned(Last(outcomes).status)

\* C9: a verb operation whose send() ended with a non-2xx response rejects.
C9_ErrorStatusRejects ==
  (entry = "verb" /\ pc = "done" /\ sendOutcome.kind = "response" /\ ~Ok(sendOutcome.status))
  => outcome.state = "rejected"

\* C10: every rejection of Client.request() and of the verb operations is an
\* ApiError.
C10_RejectionsAreApiErrors ==
  (entry \in {"request", "verb"} /\ outcome.state = "rejected")
  => outcome.err.cls = "ApiError"

\* C11: what the catch block of Client.request() rethrows for the value
\* send() threw: an ApiError unchanged, code and status included; for any
\* other Error an ApiError NETWORK_ERROR with status 0; for a value that is
\* not an Error an ApiError UNKNOWN_ERROR with status 0.
C11_NormalizationMapping ==
  (entry \in {"request", "verb"} /\ sendOutcome.kind = "throw")
  => /\ pc = "done" /\ outcome.state = "rejected"
     /\ sendOutcome.err.cls = "ApiError"
          => (outcome.err = sendOutcome.err
                /\ outcome.err.code = sendOutcome.err.code
                /\ outcome.err.status = sendOutcome.err.status)
     /\ sendOutcome.err.cls = "Error"
          => outcome.err = [cls |-> "ApiError", code |-> "NETWORK_ERROR", status |-> 0]
     /\ sendOutcome.err.cls = "Other"
          => outcome.err = [cls |-> "ApiError", code |-> "UNKNOWN_ERROR", status |-> 0]

\* send() rethrew a value that is not an Error; the caller of request() gets
\* UNKNOWN_ERROR.
C11_Witness ==
  /\ entry = "request"
  /\ sendOutcome = Threw(NonError)
  /\ Last(outcomes).kind = "nonError"
  /\ outcome = Rejected(ApiError("UNKNOWN_ERROR", 0))

\* A transport network failure as Client.request() reports it.
NetworkFailureKind == [cls |-> "ApiError", code |-> "NETWORK_ERROR"]
ErrorKind(err) == [cls |-> err.cls, code |-> err.code]
\* The call was rejected because an interceptor handler failed.
HandlerFailed ==
  /\ events # <<>>
  /\ Last(events).ev \in {"request.handler", "response.handler"}
  /\ Last(events).how # "pass"
  /\ outcome.state = "rejected"

\* C12: a call to Client.request() that was rejected because an interceptor
\* handler failed is rejected with an error whose kind is not that of a
\* transport network failure.
C12_InterceptorFailureIsDistinct ==
  (entry \in {"request", "verb"} /\ HandlerFailed)
  => ErrorKind(outcome.err) # NetworkFailureKind

\* The handles of a Map in ascending order.
RECURSIVE Ascending(_)
Ascending(S) ==
  IF S = {} THEN <<>>
  ELSE LET m == CHOOSE k \in S : \A j \in S : k <= j
       IN <<m>> \o Ascending(S \ {m})
IsPrefix(s, t) == Len(s) <= Len(t) /\ \A i \in 1 .. Len(s) : s[i] = t[i]
\* The handlers under the handles hs applied to item, one after the other.
Applied(map, hs, item) == <<item>> \o [i \in 1 .. Len(hs) |-> map[hs[i]]]

\* C13: an execute(x) call during which no use, reject or clear was called
\* has called handlers of the registered ones only, each at most once, in
\* ascending handle order, each with the result of the one before it; when
\* it resolves it has called every registered handler and its result is
\* the registered handlers applied to x in ascending handle order.
C13_ExecuteAppliesRegistered ==
  \A e \in Executions :
    (exec[e].st # "idle" /\ ~exec[e].disturbed)
    => LET asc == Ascending(DOMAIN handlers)
       IN /\ IsPrefix(exec[e].visited, asc)
          /\ exec[e].st = "awaiting"
               => exec[e].pending = Applied(handlers, exec[e].visited, exec[e].item)
          /\ exec[e].st = "resolved"
               => /\ exec[e].visited = asc
                  /\ exec[e].result = Applied(handlers, asc, exec[e].item)

\* use(A), use(B), execute(x) gave B(A(x)); then reject(idA), execute(y)
\* gave B(y).
C13_Witness ==
  /\ issued = <<0, 1>>
  /\ DOMAIN handlers = {1} /\ handlers[1] = "B"
  /\ lastOp.op = "settle"
  /\ exec["first"].st = "resolved" /\ exec["first"].result = <<"x", "A", "B">>
  /\ exec["second"].st = "resolved" /\ exec["second"].result = <<"y", "B">>
  /\ ~exec["second"].disturbed

\* C14: the handles use() returned so far are strictly increasing, so none
\* was returned twice, whatever was removed by reject() or clear() since.
C14_HandlesStrictlyIncrease ==
  /\ \A i, j \in DOMAIN issued : i < j => issued[i] < issued[j]
  /\ (lastOp.op = "use" /\ ~lastOp.threw) => lastOp.ret = Last(issued)

\* use() returned handle 1 after the handler under handle 0 was removed.
C14_Witness ==
  /\ issued = <<0, 1>>
  /\ lastOp = Op("use", NoHandle, 1, FALSE)
  /\ DOMAIN handlers = {1}

\* C15: a call reject(id) does not throw and leaves the next handle alone;
\* with an id that is not registered it leaves the handler map, size and
\* isEmpty as they were; with a registered id it removes the entry of id
\* and leaves every other entry as it was.
C15_RejectFrame ==
  [][lastOp'.op = "reject"
       => LET id == lastOp'.arg
          IN /\ ~lastOp'.threw
             /\ nextId' = nextId
             /\ IF id \in DOMAIN handlers
                THEN /\ DOMAIN handlers' = DOMAIN handlers \ {id}
                     /\ \A k \in DOMAIN handlers' : handlers'[k] = handlers[k]
                     /\ size' = size - 1
                ELSE /\ handlers' = handlers
                     /\ size' = size
                     /\ isEmpty' = isEmpty]_vars

\* reject(1) was called when handle 0 was registered and handle 1 was never
\* issued.
C15_Witness ==
  /\ lastOp = Op("reject", 1, NoHandle, FALSE)
  /\ issued = <<0>>
  /\ DOMAIN handlers = {0}
  /\ nextId = 1

\* C16: while two execute() calls are in flight on one Interceptor and no
\* use, reject or clear is called, the value each call hands to a handler is
\* made of its own item and the handlers it called before, and the result
\* of each call is the registered handlers applied to its own item in
\* ascending handle order.
C16_ConcurrentExecutesIndependent ==
  ((\A e \in Executions : exec[e].st # "idle" /\ ~exec[e].disturbed)
     /\ exec["first"].item # exec["second"].item)
  => \A e \in Executions :
       /\ exec[e].result[1] = exec[e].item
       /\ IsPrefix(exec[e].visited, Ascending(DOMAIN handlers))
       /\ exec[e].st = "awaiting"
            => exec[e].pending = Append(exec[e].result, handlers[Last(exec[e].visited)])
       /\ exec[e].st = "resolved"
            => exec[e].result = Applied(handlers, Ascending(DOMAIN handlers), exec[e].item)

\* Both calls are suspended, the first at the handler of handle 1, the
\* second at the handler of handle 0.
C16_Witness ==
  /\ DOMAIN handlers = {0, 1} /\ handlers[0] = "A" /\ handlers[1] = "B"
  /\ exec["first"].st = "awaiting" /\ exec["first"].pending = <<"x", "A", "B">>
  /\ exec["second"].st = "awaiting" /\ exec["second"].pending = <<"y", "A">>
  /\ ~exec["first"].disturbed /\ ~exec["second"].disturbed

\* The places of the log where ev was done.
At(ev) == {i \in DOMAIN events : events[i].ev = ev}

InvocationsOf(c) == Cardinality({i \in DOMAIN wire : wire[i] = c})
\* A send() with settings rs goes on to another attempt after attempt a
\* settled with o: a is not the last attempt, and o is a non-2xx response
\* the predicate accepts or a network failure.
Retried(rs, a, o) ==
  /\ a < rs.maxRetries
  /\ \/ o.kind = "Error"
     \/ o.kind = "response" /\ ~Ok(o.status) /\ o.status \in rs.shouldRetry.statuses

\* C18: whatever the other call does and however the two are interleaved,
\* the transport invocations a call has made follow from its own policy and
\* from how its own transport calls settled: every settled call but the
\* last was one its own policy retries at its own attempt index, a call
\* that is done was ended by an outcome its own policy does not retry, and
\* there are at most maxRetries + 1 of them.
C18_RetryCountersArePrivate ==
  \A c \in Calls :
    flight[c].st \notin {"idle", "reqInt"}
    => LET rs == getRetrySettings(flight[c].retry)
           log == flight[c].log
           n == InvocationsOf(c)
       IN /\ n <= rs.maxRetries + 1
          /\ n = Len(log) + (IF flight[c].st = "fetching" THEN 1 ELSE 0)
          /\ \A i \in 1 .. (Len(log) - 1) : Retried(rs, i - 1, log[i])
          /\ flight[c].st = "fetching" => \A i \in DOMAIN log : Retried(rs, i - 1, log[i])
          /\ flight[c].st = "waiting" => Retried(rs, Len(log) - 1, Last(log))
          /\ flight[c].st = "done" => (log # <<>> /\ ~Retried(rs, Len(log) - 1, Last(log)))

\* Call p used up its three attempts on failures while call q, in flight at
\* the same time with the same policy, went on retrying and got its three.
C18_Witness ==
  /\ flight["p"].retry.maxRetries = 2 /\ flight["q"].retry.maxRetries = 2
  /\ wire = <<"p", "q", "p", "q", "p", "q">>
  /\ flight["p"].st = "done" /\ flight["p"].result = Threw(fromNetworkError)
  /\ flight["q"].st = "done" /\ flight["q"].result = Returned(200)

\* C19: in the order in which two calls issued on one Client invoke the
\* transport, no invocation of one call lies between two invocations of the
\* other.
C19_AttemptsNeverInterleave ==
  \A i, j, k \in DOMAIN wire : (i < j /\ j < k /\ wire[i] = wire[k]) => wire[j] = wire[i]

\* C19 as amended: the transport invocations of one call follow one
\* another, each made only when every earlier one of that call has settled
\* and the call is not done; invocations of the other call may lie between
\* them.
C19_AttemptsOfOneCallAreSequential ==
  [][wire' # wire
       => LET c == Last(wire')
          IN /\ wire' = Append(wire, c)
             /\ InvocationsOf(c) = Len(flight[c].log)
             /\ flight[c].st \in {"reqInt", "waiting"}
             /\ flight'[c].st = "fetching"
             /\ flight'[c].log = flight[c].log]_vars

\* An invocation of q lies between two invocations of p, and both calls
\* have a transport call outstanding.
C19_Witness ==
  /\ wire = <<"p", "q", "p", "q">>
  /\ flight["p"].st = "fetching" /\ Len(flight["p"].log) = 1
  /\ flight["q"].st = "fetching" /\ Len(flight["q"].log) = 1

\* C20: every transport invocation of a request with method GET or HEAD is
\* given the body null, whatever the data of the request is, and so is
\* every transport invocation of a request whose data is null or undefined,
\* whatever its method is.
C20_ReadOnlyMethodsSendNoBody ==
  \A i \in DOMAIN sent :
    (sent[i].method \in {"GET", "HEAD"} \/ req.data \in {"null", "undefined"})
    => sent[i].body = [enc |-> "null", of |-> "-"]

\* A HEAD request built with an object as data made three transport
\* invocations, each without a body.
C20_Witness ==
  /\ req.method = "HEAD" /\ req.data = "object"
  /\ Len(sent) = 3
  /\ \A i \in DOMAIN sent : sent[i].method = "HEAD" /\ sent[i].body = NoBody

\* C21: a plain object sent with a method other than GET and HEAD goes out
\* JSON-encoded, with Content-Type application/json when the caller set no
\* Content-Type and with the caller's Content-Type otherwise.
C21_CallerContentTypeIsKept ==
  \A i \in 1 .. Len(sent) :
    (req.data = "object" /\ req.method \notin READ_ONLY_METHODS)
      => /\ sent[i].body = [enc |-> "JSON.stringify", of |-> "object"]
         /\ sent[i].contentType = IF req.configContentType = "absent"
                                  THEN JSON_CONTENT_TYPE
                                  ELSE req.configContentType

\* The base delay send() hands to wait(), and delay * 2^attempt for the
\* attempt that just failed.
BaseDelay == DelayOrDefault(getRetrySettings(req.retry).delay)
Exponential == BaseDelay * Pow2(req.attempt)

\* C22 as stated: whatever d and i are, the backoff wait lies between d*2^i
\* and d*2^i*1.1 and does not exceed 30000 ms.
C22_WaitInBandAndUnderCeiling ==
  req.st = "waiting"
    => /\ Exponential <= req.waitMs
       /\ JitterDivisor * req.waitMs <= (JitterDivisor + 1) * Exponential
       /\ req.waitMs <= RETRY_DEFAULTS_MAX_DELAY

\* C22: the backoff wait never exceeds 30000 ms nor d*2^i*1.1; it is at
\* least d*2^i when d*2^i is at most 30000, and exactly 30000 ms otherwise.
C22_WaitInCappedBand ==
  req.st = "waiting"
    => /\ req.waitMs <= RETRY_DEFAULTS_MAX_DELAY
       /\ JitterDivisor * req.waitMs <= (JitterDivisor + 1) * Exponential
       /\ Exponential <= RETRY_DEFAULTS_MAX_DELAY => Exponential <= req.waitMs
       /\ Exponential > RETRY_DEFAULTS_MAX_DELAY => req.waitMs = RETRY_DEFAULTS_MAX_DELAY

\* The second attempt of a policy with base delay 20000 failed: 40000 ms are
\* cut to the ceiling.
C22_Witness ==
  /\ req.st = "waiting"
  /\ req.attempt >= 1
  /\ Exponential > RETRY_DEFAULTS_MAX_DELAY
  /\ req.waitMs = RETRY_DEFAULTS_MAX_DELAY

\* Attempt i of the ApiRequest was followed by another one, or by the wait
\* for it; send() ended at attempt i throwing err.
RetriedAfter(i) == Len(sent) > i \/ (i = Len(req.log) /\ req.st = "waiting")
ThrewAfter(i, err) == i = Len(req.log) /\ req.st = "done" /\ req.result = Threw(err)

\* C30: after a transport exception that is not an abort, with attempts
\* remaining, a status-list predicate always retries, whatever the list and
\* the method, and a function predicate retries iff it answers true; with no
\* attempt remaining, or when the predicate answers false, send() throws an
\* ApiError with code NETWORK_ERROR and status 0.
C30_NetworkFailureRetryDecision ==
  \A i \in 1 .. Len(req.log) :
    req.log[i].kind = "Error" =>
      LET rs == getRetrySettings(req.retry)
          remain == i - 1 < rs.maxRetries
      IN /\ (remain /\ rs.shouldRetry.form = "array") => RetriedAfter(i)
         /\ (remain /\ rs.shouldRetry.form = "function")
              => (RetriedAfter(i) <=> req.log[i].answer = "true")
         /\ (~remain \/ req.log[i].answer = "false")
              => ThrewAfter(i, ApiError("NETWORK_ERROR", 0))

\* A POST whose policy carries the empty status list and one retry is
\* retried after a network failure and throws after the second one.
C30_Witness ==
  /\ req.method = "POST"
  /\ req.retry.kind = "object"
  /\ req.retry.maxRetries = 1
  /\ getRetrySettings(req.retry).shouldRetry = ArrayPredicate({})
  /\ Len(req.log) = 2
  /\ req.log[1].kind = "Error"
  /\ req.log[2].kind = "Error"
  /\ RetriedAfter(1)
  /\ ThrewAfter(2, ApiError("NETWORK_ERROR", 0))

\* The default headers of the Client, and the values a plain object holds
\* for the header name n whatever its casing.
DefaultHeaders == heap[client.headers]
ValuesUnder(obj, n) ==
  LET under == SelectSeq(obj, LAMBDA p : Lower(p[1]) = n)
  IN [i \in DOMAIN under |-> under[i][2]]
PerCallHeaders == IF merged.given.headers = None THEN <<>> ELSE merged.given.headers[1]

\* C23: an option given per call wins over the instance default; per header
\* name, compared without regard to case, the request carries exactly one
\* value, the per-call one when both define the header and the instance one
\* otherwise; responseType is the per-call one, else the instance one, else
\* auto.
C23_PerCallConfigWins ==
  (merged.made /\ clientOp = "request") =>
    /\ merged.given.timeout # None => merged.timeout = merged.given.timeout
    /\ merged.responseType =
         IF merged.given.responseType # None THEN merged.given.responseType[1]
         ELSE IF client.responseType # None THEN client.responseType[1]
         ELSE DEFAULT_RESPONSE_TYPE
    /\ \A n \in DOMAIN merged.outgoing :
         Len(ValuesUnder(DefaultHeaders, n)) <= 1 =>
           merged.outgoing[n] = IF ValuesUnder(PerCallHeaders, n) # <<>>
                                THEN ValuesUnder(PerCallHeaders, n)
                                ELSE ValuesUnder(DefaultHeaders, n)

\* The constructor was given a timeout that is not above 0, or a baseURL
\* that does not start with http:// or https://.
InvalidConfig ==
  \/ client.timeout # None /\ ~(client.timeout[1] > 0)
  \/ client.baseURL # None /\ ~StartsWithHttp(client.baseURL[1])

\* C24: constructing a Client fails iff the timeout given is not above 0 or
\* the baseURL given does not start with http:// or https://; a constructed
\* Client never holds a default timeout of 0 or less.
C24_ConstructionFailsIffInvalid ==
  /\ client.st = "failed" => InvalidConfig
  /\ client.st = "built" => ~InvalidConfig
  /\ client.st = "built" => (client.timeout = None \/ client.timeout[1] > 0)

\* C29: whatever the caller does with the object getConfig() returned, the
\* default headers of the Client change only in setHeader and removeHeader,
\* and the rest of its configuration never changes.
C29_ConfigChangesOnlyThroughClient ==
  [][client.st = "built" =>
       /\ client' = client
       /\ DefaultHeaders' # DefaultHeaders => clientOp' \in {"setHeader", "removeHeader"}]_vars

\* The decode operations that ran getData() in auto mode.
AutoDecodes == {i \in DOMAIN decoded : decoded[i].op = "getData" /\ resp.responseType = "auto"}

\* C25: auto-decode of a response with status 204 or 304 yields the absent
\* value and reads nothing from the transport response, whatever its
\* Content-Type.
C25_NoContentReadsNothing ==
  \A i \in AutoDecodes :
    resp.status \in {204, 304}
      => /\ decoded[i].out = Resolved("undefined", resp.status)
         /\ decoded[i].reads = 0

\* A 204 that announces JSON and carries a body was auto-decoded.
C25_Witness ==
  /\ resp.status = 204
  /\ resp.contentType = <<"application/", "json">>
  /\ resp.body = "json"
  /\ 1 \in AutoDecodes
  /\ decoded[1].out = Resolved("undefined", 204)
  /\ ~resp.bodyUsed

\* The decoder an auto-decode went to, as the rules name it.
DecoderUsed(i) ==
  CASE decoded[i].via = <<>> -> "absent"
    [] decoded[i].via # <<>> /\ resp.contentType = <<>> ->
         IF decoded[i].via \in {<<"json">>, <<"json", "text">>}
         THEN "jsonThenText" ELSE "other"
    [] OTHER -> IF decoded[i].via = <<"json">> THEN "json"
                ELSE IF decoded[i].via = <<"text">> THEN "text"
                ELSE IF decoded[i].via = <<"blob">> THEN "binary"
                ELSE "other"

\* The six rules in their order; textRule is rule (4).
RuleTable(status, ct, textRule) ==
  IF status \in {204, 304} THEN "absent"
  ELSE IF ct = <<>> THEN "jsonThenText"
  ELSE IF Includes(ct, "json") THEN "json"
  ELSE IF textRule THEN "text"
  ELSE IF BinaryTest(ct) THEN "binary"
  ELSE "json"

C27_FallsBackToText ==
  \A i \in AutoDecodes :
    (/\ resp.status \notin {204, 304}
     /\ resp.contentType = <<>>
     /\ resp.body = "malformed"
     /\ decoded[i].fresh)
      => decoded[i].out = Resolved("text", resp.status)

\* The code of a failure of the decoder of the given kind.
ParseCodeOf(kind) ==
  CASE kind = "json" -> "JSON_PARSE_ERROR"
    [] kind = "text" -> "TEXT_PARSE_ERROR"
    [] kind = "blob" -> "BLOB_PARSE_ERROR"
    [] kind = "arrayBuffer" -> "ARRAYBUFFER_PARSE_ERROR"
    [] OTHER -> "-"

\* C28: a decode operation that fails rejects with an ApiError whose code
\* is the upper-cased kind followed by _PARSE_ERROR and whose status is the
\* status of the response; in json mode an empty or blank body yields the
\* absent value.
C28_DecodeFailuresAreParseErrors ==
  \A i \in DOMAIN decoded :
    /\ decoded[i].out.state = "rejected" =>
         /\ decoded[i].out.err.cls = "ApiError"
         /\ decoded[i].out.err.status = resp.status
         /\ decoded[i].out.err.code =
              ParseCodeOf(IF decoded[i].via = <<>> THEN "-"
                          ELSE decoded[i].via[Len(decoded[i].via)])
    /\ (/\ decoded[i].op = "json" \/ (decoded[i].op = "getData" /\ resp.responseType = "json")
        /\ decoded[i].fresh
        /\ resp.body \in {"empty", "blank"})
         => decoded[i].out = Resolved("undefined", resp.status)

\* json() found a blank body and gave the absent value; text(), called
\* next on the body already read, failed with TEXT_PARSE_ERROR and the
\* status of the response.
C28_Witness ==
  /\ resp.status = 404
  /\ resp.body = "blank"
  /\ Len(decoded) = 2
  /\ decoded[1].op = "json"
  /\ decoded[1].out = Resolved("undefined", 404)
  /\ decoded[2].op = "text"
  /\ decoded[2].out = Rejected(ApiError("TEXT_PARSE_ERROR", 404))

\* C31: a bare number n resolves to maxRetries n, delay 1000 and the default
\* status list; an object to its maxRetries, with delay and predicate
\* defaulted when omitted; no policy to maxRetries 3, delay 1000 and the
\* list {408, 429, 500, 502, 503, 504}.  A bare 0 makes exactly one attempt,
\* no policy at most four.
C31_RetrySettingsThreeCases ==
  LET list == ArrayPredicate({408, 429, 500, 502, 503, 504})
  IN /\ retry.kind = "number" =>
          Settings = [maxRetries |-> retry.maxRetries, delay |-> 1000, shouldRetry |-> list]
     /\ retry.kind = "object" =>
          Settings = [maxRetries |-> retry.maxRetries,
                      delay |-> IF retry.delay = None THEN 1000 ELSE retry.delay[1],
                      shouldRetry |-> IF retry.shouldRetry = None THEN list
                                      ELSE retry.shouldRetry[1]]
     /\ retry.kind = "absent" =>
          Settings = [maxRetries |-> 3, delay |-> 1000, shouldRetry |-> list]
     /\ (retry.kind = "number" /\ retry.maxRetries = 0) =>
          /\ Len(calls) <= 1
          /\ sendOutcome # Pending => Len(calls) = 1
     /\ retry.kind = "absent" => Len(calls) <= 4

\* A call without a policy made its fourth attempt.
C31_Witness ==
  /\ retry.kind = "absent"
  /\ Len(calls) = 4

RECURSIVE TimesAsked(_)
TimesAsked(log) == IF log = <<>> THEN 0 ELSE Head(log).asked + TimesAsked(Tail(log))

\* C33: a function-form predicate is called at most once per attempt, and
\* only for a non-2xx response or an Error that is no abort, in an attempt
\* with index below maxRetries; one send() calls it at most maxRetries
\* times, and a 2xx response is never retried.
C33_PredicateAskedOncePerAttempt ==
  LET rs == getRetrySettings(req.retry)
  IN /\ \A i \in 1 .. Len(req.log) :
          /\ req.log[i].asked <= 1
          /\ req.log[i].asked >= 1 =>
               /\ i - 1 < rs.maxRetries
               /\ \/ req.log[i].kind = "response" /\ ~Ok(req.log[i].status)
                  \/ req.log[i].kind = "Error"
          /\ (req.log[i].kind = "response" /\ Ok(req.log[i].status)) => ~RetriedAfter(i)
     /\ rs.shouldRetry.form = "function" => TimesAsked(req.log) <= rs.maxRetries

\* The timer of send() is armed only while the transport call of the
\* attempt it was set for is outstanding, and no attempt was started with a
\* signal that was aborted already.
TimerHygiene ==
  /\ timer.armed => (pc = "fetching" /\ timer.ctl = CurrentSignal)
  /\ pc = "waiting" => ~timer.armed
  /\ SendSettled => ~timer.armed
  /\ \A i \in DOMAIN calls : ~calls[i].signalAborted

\* C34: a timeout timer is set only when the one before it was cleared or
\* has fired, so at most one is armed; it is cleared when the transport call
\* of its attempt settles, so none is armed during a backoff wait or after
\* send() settled, and none aborts the signal of a later attempt.
C34_TimerHygiene ==
  [][/\ TimerHygiene'
     /\ timer'.ctl # timer.ctl => ~timer.armed]_vars

\* The second attempt of a send() with a timeout is under way with its own
\* timer, the first one having been cleared.
C34_Witness ==
  /\ timeout # 0
  /\ Len(calls) = 2
  /\ pc = "fetching"
  /\ timer.armed
  /\ timer.ctl = CurrentSignal
  /\ calls[1].timerArmed

C36_RequestHandlerFailureStopsCall ==
  \A i \in DOMAIN events :
    (events[i].ev = "request.handler" /\ events[i].how # "pass") =>
      /\ i = Len(events)
      /\ calls = <<>> /\ outcomes = <<>>
      /\ ~SendSettled
      /\ \A j \in DOMAIN events : events[j].ev \in {"request.execute", "request.handler"}
      /\ pc = "done"
      /\ outcome.state = "rejected"

\* The first of two request handlers failed and the call was rejected.
C36_Witness ==
  /\ nReqHandlers = 2 /\ nRespHandlers = 1
  /\ Len(events) = 2
  /\ events[2].ev = "request.handler" /\ events[2].how # "pass"
  /\ calls = <<>>
  /\ outcome.state = "rejected"

ParseCodes ==
  {"JSON_PARSE_ERROR", "TEXT_PARSE_ERROR", "BLOB_PARSE_ERROR", "ARRAYBUFFER_PARSE_ERROR"}

\* A decode that rejected with one of the parse error codes.
ParseFailure(d) ==
  /\ d.out.state = "rejected"
  /\ d.out.err.cls = "ApiError"
  /\ d.out.err.code \in ParseCodes

\* getData() in auto mode on a response with status 204 or 304.
NoContentAuto(d) ==
  /\ d.op = "getData"
  /\ resp.responseType = DEFAULT_RESPONSE_TYPE
  /\ resp.status \in {HTTP_STATUS_NO_CONTENT, HTTP_STATUS_NOT_MODIFIED}

\* C37 as stated: once a decode operation has read the body, every later
\* decode operation on the same ApiResponse rejects with a parse error.
C37_EveryLaterDecodeRejects ==
  \A i, j \in DOMAIN decoded :
    (i < j /\ decoded[i].reads > 0) => ParseFailure(decoded[j])

\* C37: once a decode operation has read the body, every later decode
\* operation on the same ApiResponse rejects with a parse error, except
\* getData() in auto mode on a 204 or 304, which reads nothing and yields
\* the absent value; at most one decode operation reads the body with
\* success.
C37_LaterDecodeRejectsUnlessNoContent ==
  /\ \A i, j \in DOMAIN decoded :
       (i < j /\ decoded[i].reads > 0) =>
         IF NoContentAuto(decoded[j])
         THEN decoded[j].out = Resolved("undefined", resp.status) /\ decoded[j].reads = 0
         ELSE ParseFailure(decoded[j])
  /\ \A i, j \in DOMAIN decoded :
       (/\ decoded[i].reads > 0 /\ decoded[i].out.state = "resolved"
        /\ decoded[j].reads > 0 /\ decoded[j].out.state = "resolved") => i = j

\* text() decoded the body of a 200; getData(), called next in json mode,
\* rejected with JSON_PARSE_ERROR.
C37_Witness ==
  /\ resp.status = 200 /\ resp.responseType = "json" /\ resp.body = "json"
  /\ Len(decoded) = 2
  /\ decoded[1].op = "text" /\ decoded[1].out.state = "resolved" /\ decoded[1].reads = 1
  /\ decoded[2].op = "getData"
  /\ decoded[2].out.state = "rejected"
  /\ decoded[2].out.err.code = "JSON_PARSE_ERROR"

\* What the Client's defaults and the per-call headers of the request made
\* last would merge to now.
HeadersIfMergedNow ==
  NewHeaders(mergeConfig(client, heap[client.headers], merged.given).headers)

\* C38: every attempt of a request sends the headers merged when
\* Client.request() was called, whatever setHeader() and removeHeader() did
\* to the Client since; the attempts of one request send the same headers.
C38_HeadersAreASnapshot ==
  \A i \in DOMAIN merged.sent :
    /\ merged.sent[i] = NewHeaders(merged.headers)
    /\ merged.sent[i] = merged.sent[1]

\* Two attempts were made, and the Client's headers were changed by
\* setHeader() or removeHeader() after the merge: merging now would give
\* other headers than the attempts sent.
C38_Witness ==
  /\ Len(merged.sent) = 2
  /\ clientOp = "attempt"
  /\ HeadersIfMergedNow # merged.sent[2]
  /\ client.headers = "fresh"

\* The handles an execute() call has called the handlers of.
Visited(e) == {exec[e].visited[i] : i \in DOMAIN exec[e].visited}

\* C39 as stated: an execute() call calls handlers registered when it
\* started only, at most as many as there were, and when it returns it has
\* called every one of them, whatever use, reject and clear did meanwhile.
C39_RunIsFixedAtStart ==
  \A e \in Executions :
    /\ Visited(e) \subseteq exec[e].atStart
    /\ Len(exec[e].visited) <= Cardinality(exec[e].atStart)
    /\ exec[e].st = "resolved" => Visited(e) = exec[e].atStart

\* C39: an execute() call calls each handler at most once, in ascending
\* handle order; when no use, reject or clear is called while it is
\* suspended, it calls exactly the handlers registered when it started;
\* otherwise it has, when it returns, called the handlers registered at its
\* start that are registered still, and any other handler it called was
\* registered after its start.
C39_RunFollowsTheMap ==
  \A e \in Executions :
    /\ \A i, j \in DOMAIN exec[e].visited :
         i < j => exec[e].visited[i] < exec[e].visited[j]
    /\ ~exec[e].disturbed =>
         /\ Visited(e) \subseteq exec[e].atStart
         /\ exec[e].st = "resolved" => Visited(e) = exec[e].atStart
    /\ exec[e].st = "resolved" =>
         (exec[e].atStart \cap DOMAIN handlers) \subseteq Visited(e)
    /\ \A id \in Visited(e) \ exec[e].atStart :
         /\ exec[e].disturbed
         /\ \A k \in exec[e].atStart : k < id

\* An execute() call started with one handler registered has returned
\* after calling it and a handler registered while it was suspended.
C39_Witness ==
  /\ exec["first"].st = "resolved"
  /\ exec["first"].atStart = {0}
  /\ exec["first"].visited = <<0, 1>>
  /\ exec["first"].disturbed

====
